---- MODULE Spec2Model ----
(***************************************************************************)
(* Phishing-template generator: the generation orchestrator, the template  *)
(* store with its bounded history, and the sliding-window rate limiter.    *)
(*                                                                         *)
(* Texts (model output, HTML documents, prompts, error messages) are       *)
(* sequences of string tokens.  A marker the code searches for (the       *)
(* fence, "<!DOCTYPE", "</html>", "<!--", "From:", ...) is one token,      *)
(* white space is the tokens " " and "\n", and any other token is opaque   *)
(* text.                                                                   *)
(* Optional values are <<>> (None) or <<v>>.                               *)
(* Wall-clock fields (created_at, timestamp, generation_time) and the word *)
(* count are not part of the orchestrator's model.                         *)
(***************************************************************************)
EXTENDS Integers, Sequences, FiniteSets, TLC

\* ------------------------------------------------------------------ bounds

\* Attempts that may be suspended at the model call together.
MaxTasks == 2
\* Identifiers uuid4 can hand out in one run (bounds the number of attempts).
MaxUuid == 2
\* Largest clock value of the rate-limiter runs.
MaxTime == 130
\* History entries already recorded when a SpecCap run starts, counted below
\* the cap.
CapSlack == 1
\* Admission checks that may run on worker threads together.
MaxChecks == 2

\* --------------------------------------------------- models.py enumerations

ScenarioType ==
    [PASSWORD_RESET |-> "Password Reset", INVOICE_OVERDUE |-> "Invoice Overdue",
     ACCOUNT_LOCK |-> "Account Lock", PRIZE_NOTIFICATION |-> "Prize Notification",
     URGENT_DOCUMENT_REVIEW |-> "Urgent Document Review",
     SECURITY_ALERT |-> "Security Alert",
     SYSTEM_MAINTENANCE |-> "System Maintenance",
     PAYMENT_FAILED |-> "Payment Failed"]

TargetIndustry ==
    [BANKING |-> "Banking", ONLINE_RETAIL |-> "Online Retail",
     CLOUD_SERVICE |-> "Cloud Service", SOCIAL_MEDIA |-> "Social Media",
     SHIPPING_COMPANY |-> "Shipping Company", HEALTHCARE |-> "Healthcare",
     GOVERNMENT |-> "Government", EDUCATION |-> "Education",
     TECHNOLOGY |-> "Technology", INSURANCE |-> "Insurance",
     RETAIL |-> "Retail"]

UrgencyLevel == [NORMAL |-> "Normal", HIGH |-> "High"]

ToneStyle ==
    [FORMAL |-> "Formal", CASUAL |-> "Casual", URGENT |-> "Urgent",
     INFORMATIVE |-> "Informative"]

Language ==
    [ENGLISH |-> "English", SPANISH |-> "Spanish", FRENCH |-> "French",
     GERMAN |-> "German", CHINESE |-> "Chinese", JAPANESE |-> "Japanese"]

PhishingTactic ==
    [CREDENTIAL_HARVESTING |-> "credential_harvesting",
     INVOICE_FRAUD |-> "invoice_fraud", ACCOUNT_TAKEOVER |-> "account_takeover",
     PRIZE_SCAM |-> "prize_scam", TECH_SUPPORT |-> "tech_support",
     EXECUTIVE_IMPERSONATION |-> "executive_impersonation"]

\* A variant of EnumParse that answers a string of no member with some
\* member instead of a ValueError.
EnumParseLenient(enum, s) ==
    IF \E m \in DOMAIN enum : enum[m] = s
    THEN [raised |-> FALSE, member |-> CHOOSE m \in DOMAIN enum : enum[m] = s]
    ELSE [raised |-> FALSE, member |-> CHOOSE m \in DOMAIN enum : TRUE]

\* Enum(value): the member whose value is s, or a ValueError.
EnumParse(enum, s) ==
    IF \E m \in DOMAIN enum : enum[m] = s
    THEN [raised |-> FALSE, member |-> CHOOSE m \in DOMAIN enum : enum[m] = s]
    ELSE [raised |-> TRUE, member |-> ""]

None == <<>>
Some(v) == <<v>>

\* A PhishingRequest: every field but the tactic is a member of its
\* enumeration; the tactic is optional.
PhishingRequest(sc, ind, urg, tone, lang, tactic, adv) ==
    [scenario_type |-> sc, target_industry |-> ind, urgency_level |-> urg,
     tone_style |-> tone, language |-> lang, phishing_tactic |-> tactic,
     advanced_mode |-> adv]

ValidRequest(r) ==
    /\ r.scenario_type \in DOMAIN ScenarioType
    /\ r.target_industry \in DOMAIN TargetIndustry
    /\ r.urgency_level \in DOMAIN UrgencyLevel
    /\ r.tone_style \in DOMAIN ToneStyle
    /\ r.language \in DOMAIN Language
    /\ \/ r.phishing_tactic = None
       \/ /\ Len(r.phishing_tactic) = 1
          /\ r.phishing_tactic[1] \in DOMAIN PhishingTactic
    /\ r.advanced_mode \in BOOLEAN

\* The requests the runs submit.
RequestInputs ==
    { PhishingRequest("PASSWORD_RESET", "BANKING", "NORMAL", "FORMAL",
                      "ENGLISH", None, FALSE),
      PhishingRequest("INVOICE_OVERDUE", "ONLINE_RETAIL", "HIGH", "URGENT",
                      "SPANISH", Some("INVOICE_FRAUD"), TRUE) }

\* request.phishing_tactic.value if request.phishing_tactic else None
TacticValue(r) ==
    IF r.phishing_tactic = None THEN None
    ELSE Some(PhishingTactic[r.phishing_tactic[1]])

\* ------------------------------------------------------------ text helpers

\* The code-fence marker (three backquotes), one token.
Fence == "FENCE"

IsSpace(tok) == tok \in {" ", "\n"}

Min(S) == CHOOSE x \in S : \A y \in S : x <= y
Max(S) == CHOOSE x \in S : \A y \in S : x >= y

\* str.strip()
strip(s) ==
    LET keep == {i \in 1..Len(s) : ~IsSpace(s[i])}
    IN  IF keep = {} THEN <<>> ELSE SubSeq(s, Min(keep), Max(keep))

\* Whether the tokens of pat stand in text at position i.
At(text, i, pat) ==
    /\ i >= 1
    /\ i + Len(pat) - 1 <= Len(text)
    /\ \A k \in 1..Len(pat) : text[i + k - 1] = pat[k]

\* str.find / str.rfind of one marker: a position, or 0 for not found (-1).
find(text, marker) ==
    LET hits == {i \in 1..Len(text) : text[i] = marker}
    IN  IF hits = {} THEN 0 ELSE Min(hits)

rfind(text, marker) ==
    LET hits == {i \in 1..Len(text) : text[i] = marker}
    IN  IF hits = {} THEN 0 ELSE Max(hits)

\* text.lower() of a marker token; other tokens carry no upper-case marker.
lower(tok) ==
    CASE tok \in {"<HTML", "<Html", "<html"} -> "<html"
      [] tok \in {"</HTML>", "</Html>", "</html>"} -> "</html>"
      [] tok \in {"<TITLE>", "<title>"} -> "<title>"
      [] tok \in {"</TITLE>", "</title>"} -> "</title>"
      [] tok \in {"<!DOCTYPE", "<!doctype"} -> "<!doctype"
      [] OTHER -> tok

\* Characters a regular expression's negated class looks for, per token.
HasLt(tok) ==
    tok \in {"<", "<!--", "<!DOCTYPE", "<!doctype", "<html", "<HTML", "<Html",
             "</html>", "</HTML>", "</Html>", "<title>", "<TITLE>", "</title>",
             "</TITLE>", "<head>", "</head>", "<body>", "</body>", "<p>",
             "</p>", "<div>", "</div>", "<h2>", "</h2>", "<a", "</a>",
             "<meta", "<strong>", "</strong>", "<style>", "</style>"}

HasGt(tok) ==
    tok \in {">", "-->", "html>", "</html>", "</HTML>", "</Html>", "<title>",
             "<TITLE>", "</title>", "</TITLE>", "<head>", "</head>", "<body>",
             "</body>", "<p>", "</p>", "<div>", "</div>", "<h2>", "</h2>",
             "</a>", "<strong>", "</strong>", "<style>", "</style>"}

HasDash(tok) ==
    tok \in {"<!--", "-->", "-", "alerts@fake-bank.com", "jane@fake-bank.com",
             "help@fake-corp.net",
             "security@fake-firstnational-alerts.com",
             "admin@fake-healthpartners.org", "orders@fake-ecommerce-orders.com",
             "noreply@fake-techsupport.com",
             "notifications@fake-government-alerts.gov",
             "support@fake-university-systems.edu",
             "claims@fake-insurance-services.com",
             "service@fake-retailsupport.net", "alerts@fake-cloudsecurity.org",
             "security@fake-socialmedia.com", "tracking@fake-shipping.com",
             "support@fake-secureservices.net"}

\* A tag as re.sub(r'<[^>]+>', ...) sees it: one token from "<" to ">".
IsTag(tok) == HasLt(tok) /\ HasGt(tok) /\ tok # "<>"

\* Greedy \s*: the first position at or after i that holds no white space.
SkipSpace(text, i) ==
    LET stop == {j \in i..Len(text) : ~IsSpace(text[j])}
    IN  IF stop = {} THEN Len(text) + 1 ELSE Min(stop)

\* The first of three optional matches that is there.
FirstMatch(m1, m2, m3) ==
    IF m1 # None THEN m1 ELSE IF m2 # None THEN m2 ELSE m3

\* The leftmost position of opens, handed to At, or None.
Leftmost(opens, AtPos(_)) ==
    IF opens = {} THEN None ELSE AtPos(Min(opens))

\* ------------------------------------------- utils.py HTMLExtractor (16-68)

\* The four code-block patterns: open, then the group (which starts with
\* gopen and ends with gclose, .*? between), then close.
FencePatterns ==
    << [open |-> <<Fence, "html", "\n">>, gopen |-> <<>>, gclose |-> <<>>,
        close |-> <<"\n", Fence>>],
       [open |-> <<Fence, "html">>, gopen |-> <<>>, gclose |-> <<>>,
        close |-> <<Fence>>],
       [open |-> <<Fence, "\n">>, gopen |-> <<"<!DOCTYPE">>,
        gclose |-> <<"</html>">>, close |-> <<"\n", Fence>>],
       [open |-> <<Fence>>, gopen |-> <<"<!DOCTYPE">>,
        gclose |-> <<"</html>">>, close |-> <<Fence>> ] >>

\* Where the group's end may begin for a match that starts at i.
FenceEnds(text, p, i) ==
    {q \in (i + Len(p.open) + Len(p.gopen))..Len(text) :
        At(text, q, p.gclose \o p.close)}

FenceGroup(text, p, i) ==
    Some(SubSeq(text, i + Len(p.open),
                Min(FenceEnds(text, p, i)) + Len(p.gclose) - 1))

\* re.search(pattern, text, re.DOTALL): the leftmost start, and from it the
\* shortest match; Some(group(1)) or None.
FenceSearch(text, p) ==
    Leftmost({i \in 1..Len(text) :
                 At(text, i, p.open \o p.gopen) /\ FenceEnds(text, p, i) # {}},
             LAMBDA i : FenceGroup(text, p, i))

\* Method 1: the first pattern that matches wins; its group, stripped.
FirstFence(ms) ==
    IF \E n \in DOMAIN ms : ms[n] # None
    THEN Some(strip(ms[Min({n \in DOMAIN ms : ms[n] # None})][1]))
    ELSE None

FenceMethod(text) ==
    FirstFence([n \in 1..Len(FencePatterns) |->
                  FenceSearch(text, FencePatterns[n])])

\* Method 2, line 41: "<!DOCTYPE" in text or "<html" in text.lower()
HasHtmlMarker(text) ==
    \E i \in 1..Len(text) : text[i] = "<!DOCTYPE" \/ lower(text[i]) = "<html"

\* Lines 46-50: the earliest start marker (0: none).
StartPos(text) ==
    LET pos == {find(text, m) : m \in {"<!DOCTYPE", "<html", "<HTML"}} \ {0}
    IN  IF pos = {} THEN 0 ELSE Min(pos)

\* Lines 53-58: the first end marker that occurs at all decides, by its last
\* occurrence (0: none); the position is that of the marker's last token.
EndPos(text) ==
    IF rfind(text, "</html>") # 0 THEN rfind(text, "</html>")
    ELSE rfind(text, "</HTML>")

DirectMethod(text) ==
    IF HasHtmlMarker(text) /\ StartPos(text) # 0 /\ EndPos(text) # 0
    THEN Some(strip(SubSeq(text, StartPos(text), EndPos(text))))
    ELSE None

extract_html_from_response(text) ==
    FirstMatch(FenceMethod(text), DirectMethod(text), None)

\* A variant of Falsy that takes only None for nothing, as "is None" would.
IsNone(opt) == opt = None

\* "if not html_content": None and the empty string alike.
Falsy(opt) == opt = None \/ opt[1] = <<>>

\* ------------------------------------------------ prompts.py PhishingPrompts

industry_senders ==
    [Banking |-> <<"Security Department", "security@fake-firstnational-alerts.com">>,
     Healthcare |-> <<"Patient Services", "admin@fake-healthpartners.org">>,
     Technology |-> <<"Account Security", "noreply@fake-techsupport.com">>,
     Government |-> <<"Official Notice", "notifications@fake-government-alerts.gov">>,
     Education |-> <<"IT Services", "support@fake-university-systems.edu">>,
     Insurance |-> <<"Claims Department", "claims@fake-insurance-services.com">>,
     Retail |-> <<"Customer Support", "service@fake-retailsupport.net">>]
    @@ ("Online Retail" :> <<"Customer Service", "orders@fake-ecommerce-orders.com">>)
    @@ ("Cloud Service" :> <<"Security Team", "alerts@fake-cloudsecurity.org">>)
    @@ ("Social Media" :> <<"Account Safety", "security@fake-socialmedia.com">>)
    @@ ("Shipping Company" :> <<"Delivery Notice", "tracking@fake-shipping.com">>)

get_fallback_sender_info(industry) ==
    IF industry \in DOMAIN industry_senders THEN industry_senders[industry]
    ELSE <<"Support Team", "support@fake-secureservices.net">>

INDUSTRY_SPECIFIC_PROMPTS ==
    {"Banking", "Healthcare", "Technology", "Government", "Education"}

\* tactic.replace("_", " ").title()
TacticTitle(value) ==
    CASE value = "credential_harvesting" -> "Credential Harvesting"
      [] value = "invoice_fraud" -> "Invoice Fraud"
      [] value = "account_takeover" -> "Account Takeover"
      [] value = "prize_scam" -> "Prize Scam"
      [] value = "tech_support" -> "Tech Support"
      [] value = "executive_impersonation" -> "Executive Impersonation"
      [] OTHER -> value

\* get_prompt: the chosen template with its parameters filled in, and the
\* industry guidance when the industry has one.
get_prompt(template_type, params) ==
    << IF template_type = "advanced" THEN "ADVANCED_TEMPLATE" ELSE "BASE_TEMPLATE",
       params.language, params.urgency_level, params.tone_style,
       params.phishing_tactic, params.target_industry, params.scenario_type >>
    \o (IF params.target_industry \in INDUSTRY_SPECIFIC_PROMPTS
        THEN <<"Industry-Specific Guidance for", params.target_industry>>
        ELSE <<>>)

\* ------------------------------- utils.py EmailComponentExtractor (70-173)

\* Case folding of the markers the subject patterns match with re.IGNORECASE.
fold(tok) ==
    CASE tok \in {"Subject:", "SUBJECT:", "subject:"} -> "subject:"
      [] OTHER -> lower(tok)

Quote(tok) == tok \in {"'", "\""}

\* The first position after i whose token satisfies Has (0: none).
FirstFrom(text, i, Has(_)) ==
    LET hits == {j \in (i + 1)..Len(text) : Has(text[j])}
    IN  IF hits = {} THEN 0 ELSE Min(hits)

\* <title[^>]*>(.*?)</title> with the opening tag at i: the shortest span.
TitleCloses(text, i) ==
    {j \in (i + 1)..Len(text) : fold(text[j]) = "</title>"}

TitleAt(text, i) == Some(SubSeq(text, i + 1, Min(TitleCloses(text, i)) - 1))

TitleSearch(text) ==
    Leftmost({i \in 1..Len(text) :
                 fold(text[i]) = "<title>" /\ TitleCloses(text, i) # {}},
             LAMBDA i : TitleAt(text, i))

\* <!--\s*Subject:\s*([^-]+)\s*-->  with the comment opening at i, the
\* label at j and the first dash after it at e.
SubjectCommentSpan(text, i, j, e) ==
    IF /\ text[i] = "<!--"
       /\ j <= Len(text) /\ fold(text[j]) = "subject:"
       /\ e > j + 1 /\ text[e] = "-->"
    THEN Some(SubSeq(text, j + 1, e - 1))
    ELSE None

SubjectCommentAt(text, i) ==
    SubjectCommentSpan(text, i, SkipSpace(text, i + 1),
                       FirstFrom(text, SkipSpace(text, i + 1), HasDash))

SubjectCommentSearch(text) ==
    Leftmost({i \in 1..Len(text) : SubjectCommentAt(text, i) # None},
             LAMBDA i : SubjectCommentAt(text, i))

\* <meta\s+name=['"]subject['"][^>]*content=['"]([^'"]+)['"] with the tag
\* at i and name= at n; [^>]* is greedy, so the last content= before the
\* next ">" that completes the match is taken.
MetaContents(text, n, lim) ==
    {c \in (n + 4)..lim :
        /\ text[c] = "content=" /\ c + 1 <= Len(text)
        /\ Quote(text[c + 1])
        /\ FirstFrom(text, c + 1, Quote) > c + 2}

MetaGroup(text, c) == Some(SubSeq(text, c + 2, FirstFrom(text, c + 1, Quote) - 1))

MetaSpan(text, i, n, cs) ==
    IF /\ text[i] = "<meta" /\ n > i + 1
       /\ At(text, n, <<"name=">>) /\ n + 3 <= Len(text)
       /\ Quote(text[n + 1]) /\ fold(text[n + 2]) = "subject"
       /\ Quote(text[n + 3])
       /\ cs # {}
    THEN MetaGroup(text, Max(cs))
    ELSE None

MetaLimit(text, gt) == IF gt = 0 THEN Len(text) ELSE gt - 1

MetaFrom(text, i, n) ==
    MetaSpan(text, i, n,
             MetaContents(text, n, MetaLimit(text, FirstFrom(text, n + 3, HasGt))))

MetaAt(text, i) == MetaFrom(text, i, SkipSpace(text, i + 1))

MetaSearch(text) ==
    Leftmost({i \in 1..Len(text) : MetaAt(text, i) # None},
             LAMBDA i : MetaAt(text, i))

\* re.sub(r'<[^>]+>', '', subject)
RemoveTags(s) == SelectSeq(s, LAMBDA tok : ~IsTag(tok))

\* The number of characters of a text.
RECURSIVE CharLen(_)
CharLen(s) == IF s = <<>> THEN 0 ELSE Len(Head(s)) + CharLen(Tail(s))

\* subject[:n]: the tokens that lie within the first n characters (a text
\* that is cut inside a token is given character by character).
Slice(s, n) ==
    LET fit == {k \in 0..Len(s) : CharLen(SubSeq(s, 1, k)) <= n}
    IN  SubSeq(s, 1, Max(fit))

SubjectLimit == 100

\* Lines 100-103: strip, drop nested tags, cut to 100 characters.
SubjectOf(m, default) ==
    IF m = None THEN default
    ELSE Slice(RemoveTags(strip(m[1])), SubjectLimit)

\* A variant of ExtractSubject that asks the comment before the title.
ExtractSubjectCommentFirst(text, default) ==
    SubjectOf(FirstMatch(SubjectCommentSearch(text), TitleSearch(text),
                         MetaSearch(text)),
              default)

\* Lines 91-104: the first subject pattern that matches supplies the subject.
ExtractSubject(text, default) ==
    SubjectOf(FirstMatch(TitleSearch(text), SubjectCommentSearch(text),
                         MetaSearch(text)),
              default)

\* Lines 107-112: the sender patterns, each a label, inside a comment or not.
sender_patterns ==
    << [comment |-> TRUE, label |-> "From:"],
       [comment |-> TRUE, label |-> "Sender:"],
       [comment |-> TRUE, label |-> "From:"],
       [comment |-> FALSE, label |-> "From:"] >>

\* label\s*([^<]+)\s*<([^>]+)>  with the label at j, the first "<" after it
\* at lt and the first ">" after that at gt: Some(<<name, email>>).
SenderSpan(text, j, p, lt, gt) ==
    IF /\ j >= 1 /\ j <= Len(text) /\ text[j] = p.label
       /\ lt > j + 1 /\ text[lt] = "<"
       /\ gt > lt + 1 /\ text[gt] = ">"
       /\ p.comment => At(text, SkipSpace(text, gt + 1), <<"-->">>)
    THEN Some(<<SubSeq(text, j + 1, lt - 1), SubSeq(text, lt + 1, gt - 1)>>)
    ELSE None

SenderFrom(text, j, p, lt) ==
    SenderSpan(text, j, p, lt, IF lt = 0 THEN 0 ELSE FirstFrom(text, lt, HasGt))

SenderAt(text, j, p) == SenderFrom(text, j, p, FirstFrom(text, j, HasLt))

\* Where the label stands for a match that starts at i.
LabelPos(text, i, p) == IF p.comment THEN SkipSpace(text, i + 1) ELSE i

\* re.search of one sender pattern: the leftmost match.
SenderSearch(text, p) ==
    Leftmost({i \in 1..Len(text) :
                 /\ p.comment => text[i] = "<!--"
                 /\ SenderAt(text, LabelPos(text, i, p), p) # None},
             LAMBDA i : SenderAt(text, LabelPos(text, i, p), p))

\* Lines 114-120: the first sender pattern that matches.
FirstSender(ms) ==
    IF \E n \in DOMAIN ms : ms[n] # None
    THEN ms[Min({n \in DOMAIN ms : ms[n] # None})]
    ELSE None

\* Lines 148-156: keyword groups in priority order, each with its sender.
industry_mappings ==
    << [keywords |-> {"bank", "account", "financial", "credit"},
        name |-> "Security Department",
        email |-> "security@fake-firstnational-bank.com"],
       [keywords |-> {"health", "medical", "patient", "clinic"},
        name |-> "Patient Services", email |-> "admin@fake-healthsystems.org"],
       [keywords |-> {"order", "shipping", "delivery", "purchase"},
        name |-> "Customer Service",
        email |-> "orders@fake-retailservices.com"],
       [keywords |-> {"microsoft", "google", "tech", "software", "cloud"},
        name |-> "Account Security", email |-> "noreply@fake-techsupport.com"],
       [keywords |-> {"government", "irs", "tax", "official"},
        name |-> "Official Notice",
        email |-> "notifications@fake-government-alerts.gov"],
       [keywords |-> {"education", "university", "student", "academic"},
        name |-> "IT Services",
        email |-> "support@fake-university-systems.edu"],
       [keywords |-> {"insurance", "policy", "claim", "premium"},
        name |-> "Claims Department",
        email |-> "claims@fake-insurance-services.com"] >>

\* str.lower() of a token, character by character.
UpperCase == "ABCDEFGHIJKLMNOPQRSTUVWXYZ"
LowerCase == "abcdefghijklmnopqrstuvwxyz"

LowerMap ==
    [c \in {SubSeq(UpperCase, k, k) : k \in 1..Len(UpperCase)} |->
        SubSeq(LowerCase,
               CHOOSE k \in 1..Len(UpperCase) : SubSeq(UpperCase, k, k) = c,
               CHOOSE k \in 1..Len(UpperCase) : SubSeq(UpperCase, k, k) = c)]

LowerChar(c) == IF c \in DOMAIN LowerMap THEN LowerMap[c] ELSE c

RECURSIVE str_lower(_)
str_lower(tok) ==
    IF Len(tok) = 0 THEN tok
    ELSE LowerChar(SubSeq(tok, 1, 1)) \o str_lower(SubSeq(tok, 2, Len(tok)))

\* word in tok
Contains(tok, word) ==
    \E i \in 1..(Len(tok) - Len(word) + 1) :
        SubSeq(tok, i, i + Len(word) - 1) = word

AllKeywords == UNION {industry_mappings[g].keywords : g \in DOMAIN industry_mappings}

\* The keywords of industry_mappings that a lower-cased token contains.
KeywordsOf(low) == {word \in AllKeywords : Contains(low, word)}

\* The keywords of industry_mappings that a token contains, lower-cased.
KeywordsIn(tok) == KeywordsOf(str_lower(tok))

\* The keyword groups of which the document holds a keyword.
GroupsFound(text, found) ==
    {g \in 1..Len(industry_mappings) :
        industry_mappings[g].keywords \cap found # {}}

\* A variant of SenderOfGroup that leaves the sender alone when no keyword
\* group is found (no for-else branch).
SenderOfGroupOnly(components, hit) ==
    IF hit # {}
    THEN [components EXCEPT
            !.sender_name = <<industry_mappings[Min(hit)].name>>,
            !.sender_email = <<industry_mappings[Min(hit)].email>>]
    ELSE components

SenderOfGroup(components, hit) ==
    IF hit # {}
    THEN [components EXCEPT
            !.sender_name = <<industry_mappings[Min(hit)].name>>,
            !.sender_email = <<industry_mappings[Min(hit)].email>>]
    ELSE [components EXCEPT
            !.sender_name = <<"Support Team">>,
            !.sender_email = <<"support@fake-secureservices.net">>]

\* _generate_realistic_sender: the first keyword group found in the lower-
\* cased document names the sender; without one, the generic sender.
generate_realistic_sender(text, components) ==
    SenderOfGroup(components,
        GroupsFound(text, UNION {KeywordsIn(text[i]) : i \in 1..Len(text)}))

\* Lines 84-88.
DefaultComponents ==
    [subject |-> <<"Generated Phishing Email">>,
     sender_name |-> <<"Security Team">>,
     sender_email |-> <<"security@example.com">>]

\* Lines 116-118: the match supplies name and address, stripped.
WithSender(components, m) ==
    IF m = None THEN components
    ELSE [components EXCEPT !.sender_name = strip(m[1][1]),
                            !.sender_email = strip(m[1][2])]

\* A variant of WithRealisticSender that infers the sender whether or not a
\* pattern matched.
AlwaysRealisticSender(text, components) ==
    generate_realistic_sender(text, components)

\* Lines 122-124: a sender address still equal to the default is replaced.
WithRealisticSender(text, components) ==
    IF components.sender_email = <<"security@example.com">>
    THEN generate_realistic_sender(text, components)
    ELSE components

extract_email_components(html_content) ==
    WithRealisticSender(html_content,
        WithSender([DefaultComponents EXCEPT
                      !.subject = ExtractSubject(html_content, @)],
                   FirstSender([n \in 1..Len(sender_patterns) |->
                                  SenderSearch(html_content, sender_patterns[n])])))

\* -------------------------------- utils.py TemplateGenerator (336-490)


\* str.replace(' ', '') of a token.
RECURSIVE RemoveSpaces(_)
RemoveSpaces(tok) ==
    IF Len(tok) = 0 THEN tok
    ELSE IF SubSeq(tok, 1, 1) = " " THEN RemoveSpaces(SubSeq(tok, 2, Len(tok)))
    ELSE SubSeq(tok, 1, 1) \o RemoveSpaces(SubSeq(tok, 2, Len(tok)))

\* Line 463: target_industry.lower().replace(' ', '')
UrlSlug(industry) == RemoveSpaces(str_lower(industry))

\* The fallback document: the head with its title, the sender comment, the
\* training disclaimer, and the body with its one link.
create_fallback_template(request_data) ==
    LET sender == get_fallback_sender_info(request_data.target_industry)
        scenario_type == request_data.scenario_type
        target_industry == request_data.target_industry
    IN  << "<!DOCTYPE", " ", "html>", "\n", "<html", " ", "lang=", "\"", "en",
           "\"", ">", "\n", "<head>", "\n",
           "<title>", "Urgent:", " ", scenario_type, " ", "Required",
           "</title>", "\n", "<style>", "</style>", "\n", "</head>", "\n",
           "<body>", "\n",
           "<!--", " ", "From:", " ", sender[1], " ", "<", sender[2], ">", " ",
           "-->", "\n",
           "<!--", " ", "For training only", " ", "not a real phishing email",
           " ", "-->", "\n",
           "<div>", target_industry, "</div>", "\n",
           "<h2>", "Urgent:", " ", scenario_type, " ", "Required", "</h2>",
           "\n",
           "<p>", "We have detected unusual activity on your account", "</p>",
           "\n",
           "<a", " ", "href=", "\"",
           "http://fake-" \o UrlSlug(target_industry) \o "-verification.com/verify",
           "\"", ">", "Verify Account Now", "</a>", "\n",
           "<strong>", sender[1], "</strong>", target_industry, " ",
           "Security Team", "\n",
           "</body>", "\n", "</html>" >>

\* ------------------------------ utils.py ValidationHelper (536-566)

FakeMarkers == {"fake-", "phishing-", "test-", "training-"}

real_companies ==
    <<"microsoft.com", "google.com", "amazon.com", "apple.com", "facebook.com">>

\* href=["']([^"']+)["'] under re.IGNORECASE, with href= at i: the position
\* of the closing quote (0: no match at i).
HrefClose(text, i) ==
    IF /\ str_lower(text[i]) = "href=" /\ i + 2 <= Len(text)
       /\ Quote(text[i + 1]) /\ ~Quote(text[i + 2])
    THEN FirstFrom(text, i + 2, Quote)
    ELSE 0

\* re.findall: the groups of the matches from position i on, left to right,
\* none overlapping another.
RECURSIVE FindUrls(_, _)
FindUrls(text, i) ==
    IF i > Len(text) THEN <<>>
    ELSE IF HrefClose(text, i) # 0
         THEN <<SubSeq(text, i + 2, HrefClose(text, i) - 1)>>
                  \o FindUrls(text, HrefClose(text, i) + 1)
         ELSE FindUrls(text, i + 1)

\* any(fake in url.lower() for fake in [...])
LooksFake(url) ==
    \E k \in 1..Len(url) : \E fake \in FakeMarkers :
        Contains(str_lower(url[k]), fake)

Issue(text, about) == [issue |-> text, about |-> about]

DisclaimerIssues(html_content) ==
    IF \E i \in 1..Len(html_content) :
           Contains(html_content[i], "For training only")
    THEN <<>>
    ELSE <<Issue("Missing training disclaimer", <<>>)>>

UrlIssues(real_domains) ==
    IF real_domains # <<>>
    THEN <<Issue("Contains potentially real URLs", real_domains)>>
    ELSE <<>>

\* html_content.lower(), token by token
LowerText(text) == [i \in 1..Len(text) |-> str_lower(text[i])]

\* A variant of CompanyIssues that reports the first company found and
\* looks no further.
RECURSIVE FirstCompanyIssue(_, _)
FirstCompanyIssue(lowered, n) ==
    IF n > Len(real_companies) THEN <<>>
    ELSE IF \E i \in 1..Len(lowered) : Contains(lowered[i], real_companies[n])
         THEN <<Issue("Contains reference to real company",
                      <<real_companies[n]>>)>>
         ELSE FirstCompanyIssue(lowered, n + 1)

RECURSIVE CompanyIssues(_, _)
CompanyIssues(lowered, n) ==
    IF n > Len(real_companies) THEN <<>>
    ELSE (IF \E i \in 1..Len(lowered) : Contains(lowered[i], real_companies[n])
          THEN <<Issue("Contains reference to real company",
                       <<real_companies[n]>>)>>
          ELSE <<>>)
         \o CompanyIssues(lowered, n + 1)

\* Line 566: (len(issues) == 0, issues)
SafetyResult(issues) == [is_safe |-> Len(issues) = 0, issues |-> issues]

validate_html_safety(html_content) ==
    SafetyResult(
        DisclaimerIssues(html_content)
        \o UrlIssues(SelectSeq(FindUrls(html_content, 1),
                               LAMBDA url : ~LooksFake(url)))
        \o CompanyIssues(LowerText(html_content), 1))

\* ------------------------------------------------------------------- state

UuidSpace == 1..MaxUuid

VARIABLES
    client,               \* AnthropicService.client: None or the API client
    templates,            \* TemplateService.templates: id -> EmailTemplate
    generation_history,   \* TemplateService.generation_history
    issued,               \* the identifiers uuid4 has returned so far
    inflight,             \* the attempts suspended at the await of
                          \* generate_content, each with its locals
    returned,             \* the handler call that returned last: its
                          \* locals and its response
    requests,             \* RateLimiter.requests: client_id -> timestamps
    now,                  \* time.time()
    last_check,           \* the latest is_allowed call and what it returned
    checks,               \* the is_allowed calls the thread pool is running
    document,             \* a text handed to the text functions
    provenance,           \* where the text comes from: the request data it
                          \* was synthesized from, the functions it went
                          \* through
    answer,               \* the text function called last and what it
                          \* returned
    output                \* the files of the output directory: path ->
                          \* content

storeVars == <<client, templates, generation_history, issued>>
taskVars == <<inflight, returned>>
limiterVars == <<requests, now, last_check, checks>>
textVars == <<document, provenance, answer>>
fileVars == <<output>>
vars == <<storeVars, taskVars, limiterVars, textVars, fileVars>>

\* ------------------------------------------------------------------ inputs

\* A model answer with a fenced document that names its sender.
FencedDoc ==
    << "Here is the template:", "\n", Fence, "html", "\n",
       "<!DOCTYPE", " ", "html>", "\n", "<html", ">", "<head>",
       "<title>", "Verify your account", "</title>", "</head>", "<body>",
       "<!--", " ", "From:", " ", "Sarah Johnson", " ", "<",
       "alerts@fake-bank.com", ">", " ", "-->",
       "<!--", " ", "For training only", " ", "-->",
       "<p>", "Dear customer", "</p>", "</body>", "</html>",
       "\n", Fence, "\n", "Let me know." >>

\* An answer with an unfenced document, no sender and no disclaimer.
BareDoc ==
    << "Sure.", " ", "<html", ">", "<body>", "<p>", "Your order has shipped",
       "</p>", "</body>", "</html>", " ", "Bye" >>

\* An answer without any document, and one whose fence holds nothing.
Refusal == << "I cannot help with that." >>
EmptyFence == << Fence, "html", "\n", Fence >>

\* An answer whose only closing tag stands before the document begins.
ClosedEarly ==
    << "</html>", "\n", "<html", ">", "<body>", "<p>", "Dear customer", "</p>" >>

ResponseTexts == {FencedDoc, BareDoc, Refusal, EmptyFence, ClosedEarly}

\* The text functions, evaluated once for each text the runs feed them.
ExtractTable ==
    [txt \in ResponseTexts |-> extract_html_from_response(txt)]

ExtractHtml(text) ==
    IF text \in DOMAIN ExtractTable THEN ExtractTable[text]
    ELSE extract_html_from_response(text)

FallbackDicts ==
    {[scenario_type |-> ScenarioType[r.scenario_type],
      target_industry |-> TargetIndustry[r.target_industry],
      urgency_level |-> UrgencyLevel[r.urgency_level],
      tone_style |-> ToneStyle[r.tone_style]] : r \in RequestInputs}

FallbackTable == [d \in FallbackDicts |-> create_fallback_template(d)]

FallbackHtml(request_dict) ==
    IF request_dict \in DOMAIN FallbackTable THEN FallbackTable[request_dict]
    ELSE create_fallback_template(request_dict)

ComponentsTable ==
    [doc \in {ExtractTable[txt][1] :
                 txt \in {x \in ResponseTexts : ExtractTable[x] # None}}
             \cup {FallbackTable[d] : d \in FallbackDicts}
       |-> extract_email_components(doc)]

SafetyTable ==
    [doc \in {ExtractTable[txt][1] :
                 txt \in {x \in ResponseTexts : ExtractTable[x] # None}}
       |-> validate_html_safety(doc)]

Validated(html_content) ==
    IF html_content \in DOMAIN SafetyTable THEN SafetyTable[html_content]
    ELSE validate_html_safety(html_content)

Components(html_content) ==
    IF html_content \in DOMAIN ComponentsTable
    THEN ComponentsTable[html_content]
    ELSE extract_email_components(html_content)

\* ------------------------------------------------- services.py, the model

models_to_try ==
    <<"claude-3-haiku-20240307", "claude-3-sonnet-20240229",
      "claude-3-5-sonnet-20241022">>

\* What the API does for each candidate model: a text, or an error.
Reply(text) == [ok |-> TRUE, text |-> text, err |-> ""]
ApiError(msg) == [ok |-> FALSE, text |-> <<>>, err |-> msg]

\* What the API may do during one generate_content call.
ApiBehaviours ==
    {<<Reply(txt), Reply(txt), Reply(txt)>> : txt \in ResponseTexts}
    \cup {<<ApiError("overloaded"), ApiError("not_found"), Reply(FencedDoc)>>,
          <<ApiError("overloaded"), Reply(BareDoc), Reply(FencedDoc)>>,
          <<Reply(FencedDoc), ApiError("not_found"), Reply(BareDoc)>>,
          <<ApiError("overloaded"), ApiError("not_found"),
            ApiError("timeout")>>}

\* A variant of is_available that never reports the client missing.
AlwaysAvailable(c) == TRUE

\* AnthropicService.is_available
is_available(c) == c # None

\* What generate_content logs for the candidate it tried n-th: the model
\* and what the API did.
Tried(replies, n) ==
    [model |-> models_to_try[n], ok |-> replies[n].ok,
     text |-> replies[n].text, err |-> replies[n].err]

\* A variant of TryModels that goes on to the later candidates after a
\* success and returns the text of the last one that answered.
RECURSIVE TryEveryModel(_, _, _)
TryEveryModel(replies, n, log) ==
    IF n > Len(models_to_try)
    THEN IF \E k \in 1..Len(log) : log[k].ok
         THEN LET k == Max({j \in 1..Len(log) : log[j].ok})
              IN  [raised |-> FALSE, text |-> log[k].text,
                   model |-> log[k].model, error |-> <<>>, log |-> log]
         ELSE [raised |-> TRUE, text |-> <<>>, model |-> "",
               error |-> <<"All models failed. Last error: ",
                           log[Len(log)].err>>,
               log |-> log]
    ELSE TryEveryModel(replies, n + 1, Append(log, Tried(replies, n)))

\* Lines 97-118: the loop over models_to_try from the n-th candidate on.
\* The first candidate that answers returns its text; a candidate that
\* raises leaves its error as last_error and the loop goes on; after the
\* last candidate, an exception with the last error.
RECURSIVE TryModels(_, _, _)
TryModels(replies, n, log) ==
    IF n > Len(models_to_try)
    THEN [raised |-> TRUE, text |-> <<>>, model |-> "",
          error |-> <<"All models failed. Last error: ", log[Len(log)].err>>,
          log |-> log]
    ELSE IF replies[n].ok
    THEN [raised |-> FALSE, text |-> replies[n].text,
          model |-> models_to_try[n], error |-> <<>>,
          log |-> Append(log, Tried(replies, n))]
    ELSE TryModels(replies, n + 1, Append(log, Tried(replies, n)))

\* AnthropicService.generate_content: without a client an exception at
\* once, else the candidates in order.
generate_content(c, replies) ==
    IF ~is_available(c)
    THEN [raised |-> TRUE, text |-> <<>>, model |-> "",
          error |-> <<"Anthropic client not available">>, log |-> <<>>]
    ELSE TryModels(replies, 1, <<>>)

\* ----------------------------------------- services.py, the orchestrator

max_history == 1000

GenerationResponse(success, template, error) ==
    [status |-> 200, success |-> success, template |-> template,
     error |-> error]

\* _validate_request: a ValueError unless scenario and industry are truthy.
validate_request(r) ==
    IF ScenarioType[r.scenario_type] = "" \/ TargetIndustry[r.target_industry] = ""
    THEN Some(<<"Scenario type and target industry are required">>)
    ELSE None

\* _create_prompt
create_prompt(r) ==
    LET tactic == IF r.phishing_tactic # None THEN TacticValue(r)[1]
                  ELSE "credential_harvesting"
    IN  get_prompt(IF r.advanced_mode THEN "advanced" ELSE "base",
                   [language |-> Language[r.language],
                    urgency_level |-> UrgencyLevel[r.urgency_level],
                    tone_style |-> ToneStyle[r.tone_style],
                    phishing_tactic |-> TacticTitle(tactic),
                    target_industry |-> TargetIndustry[r.target_industry],
                    scenario_type |-> ScenarioType[r.scenario_type]])

\* A variant of EmailTemplate that stores the urgency member's name where
\* the code stores its value.
EmailTemplateByName(id, components, html_content, r) ==
    [id |-> id,
     subject |-> components.subject,
     sender_name |-> components.sender_name,
     sender_email |-> components.sender_email,
     html_content |-> html_content,
     scenario_type |-> ScenarioType[r.scenario_type],
     target_industry |-> TargetIndustry[r.target_industry],
     urgency_level |-> r.urgency_level,
     tone_style |-> ToneStyle[r.tone_style],
     language |-> Language[r.language],
     phishing_tactic |-> TacticValue(r),
     advanced_mode |-> r.advanced_mode]

\* EmailTemplate(...) as lines 259-275 and 348-364 build it.
EmailTemplate(id, components, html_content, r) ==
    [id |-> id,
     subject |-> components.subject,
     sender_name |-> components.sender_name,
     sender_email |-> components.sender_email,
     html_content |-> html_content,
     scenario_type |-> ScenarioType[r.scenario_type],
     target_industry |-> TargetIndustry[r.target_industry],
     urgency_level |-> UrgencyLevel[r.urgency_level],
     tone_style |-> ToneStyle[r.tone_style],
     language |-> Language[r.language],
     phishing_tactic |-> TacticValue(r),
     advanced_mode |-> r.advanced_mode]

GenerationHistoryEntry(r, id, success, error) ==
    [request |-> r, template_id |-> id, success |-> success, error |-> error]

\* A variant of record_generation_history that keeps the first max_history
\* entries where the code keeps the last.
record_keeping_oldest(history, r, id, success, error) ==
    LET h == Append(history, GenerationHistoryEntry(r, id, success, error))
    IN  IF Len(h) > max_history THEN SubSeq(h, 1, max_history) ELSE h

\* _record_generation_history: append, then keep the last max_history.
record_generation_history(history, r, id, success, error) ==
    LET h == Append(history, GenerationHistoryEntry(r, id, success, error))
    IN  IF Len(h) > max_history
        THEN SubSeq(h, Len(h) - max_history + 1, Len(h))
        ELSE h

\* A variant of StoreTemplate that writes back a store holding the new
\* template alone.
StoreTemplateAlone(store, template) ==
    [i \in {template.id} |-> template]

\* self.template_service.templates[template_id] = template
StoreTemplate(store, template) ==
    [i \in DOMAIN store \cup {template.id} |->
        IF i = template.id THEN template ELSE store[i]]

\* The tail both paths share: store the template, record the success,
\* return it (lines 277-288 and 366-377).
Persist(store, history, r, template) ==
    [templates |-> StoreTemplate(store, template),
     history |-> record_generation_history(history, r, Some(template.id),
                                           TRUE, None),
     result |-> GenerationResponse(TRUE, Some(template), None)]

\* A variant of Fail that returns the failure without recording it.
FailUnrecorded(store, history, r, prefix, e) ==
    [templates |-> store,
     history |-> history,
     result |-> GenerationResponse(FALSE, None, Some(<<prefix>> \o e))]

\* A variant of Fail that also discards what the store holds.
FailResettingStore(store, history, r, prefix, e) ==
    [templates |-> <<>>,
     history |-> record_generation_history(history, r, None, FALSE,
                                           Some(<<prefix>> \o e)),
     result |-> GenerationResponse(FALSE, None, Some(<<prefix>> \o e))]

\* The except branches (lines 290-302 and 379-390): record the failure and
\* return it; the store is not touched.
Fail(store, history, r, prefix, e) ==
    [templates |-> store,
     history |-> record_generation_history(history, r, None, FALSE,
                                           Some(<<prefix>> \o e)),
     result |-> GenerationResponse(FALSE, None, Some(<<prefix>> \o e))]

\* request_dict of _handle_fallback_generation (lines 335-340).
RequestDict(r) ==
    [scenario_type |-> ScenarioType[r.scenario_type],
     target_industry |-> TargetIndustry[r.target_industry],
     urgency_level |-> UrgencyLevel[r.urgency_level],
     tone_style |-> ToneStyle[r.tone_style]]

\* _handle_fallback_generation
handle_fallback_generation(store, history, r, id) ==
    LET html_content == FallbackHtml(RequestDict(r))
        components == Components(html_content)
    IN  Persist(store, history, r,
                EmailTemplate(id, components, html_content, r))

\* A variant of AfterSafetyCheck that refuses a document with safety issues.
RejectUnsafe(store, history, r, id, html_content, safety) ==
    IF safety.is_safe
    THEN Persist(store, history, r,
                 EmailTemplate(id, Components(html_content), html_content, r))
    ELSE Fail(store, history, r, "Failed to generate template: ",
              <<"Safety issues detected">>)

\* Lines 246-288: the safety issues are logged and the attempt goes on to
\* the components and the template.
AfterSafetyCheck(store, history, r, id, html_content, safety) ==
    Persist(store, history, r,
            EmailTemplate(id, Components(html_content), html_content, r))

\* A variant of AfterModelCall that falls back only when extraction
\* returned None.
AfterModelCallNoneOnly(store, history, r, id, response_text) ==
    LET html_content == ExtractHtml(response_text)
    IN  IF html_content = None
        THEN handle_fallback_generation(store, history, r, id)
        ELSE AfterSafetyCheck(store, history, r, id, html_content[1],
                              Validated(html_content[1]))

\* generate_template after the model call returned response_text
\* (lines 239-288).
AfterModelCall(store, history, r, id, response_text) ==
    LET html_content == ExtractHtml(response_text)
    IN  IF Falsy(html_content)
        THEN handle_fallback_generation(store, history, r, id)
        ELSE AfterSafetyCheck(store, history, r, id, html_content[1],
                              Validated(html_content[1]))

\* A variant of uuid4 that only avoids the identifiers the store holds now.
uuid4_unstored ==
    IF UuidSpace \ DOMAIN templates = {} THEN {}
    ELSE {Min(UuidSpace \ DOMAIN templates)}

\* str(uuid.uuid4()): an identifier never returned before.  Which unused
\* identifier comes out makes no difference to any handler, so the runs
\* take them in order.
uuid4 == IF UuidSpace \ issued = {} THEN {} ELSE {Min(UuidSpace \ issued)}

\* ----------------------------------------------------------------- actions

\* The locals of one handler call: the endpoint, its template_id path
\* parameter (0: none), and generate_template's request, template_id and
\* prompt.
Call(o, a, r, id, p) ==
    [op |-> o, arg |-> a, request |-> r, template_id |-> id, prompt |-> p]

\* A handler call that has returned: its locals, how its model call ended
\* (None: no model call), and its response.
Returned(call, called, res) ==
    [op |-> call.op, arg |-> call.arg, request |-> call.request,
     template_id |-> call.template_id, prompt |-> call.prompt,
     api |-> called, result |-> res]

NoResult == [status |-> 0, success |-> FALSE, template |-> None, error |-> None]

\* generate_template up to its await (lines 221-237): draw the identifier,
\* validate, then fall back at once when the client is unavailable, or
\* build the prompt and call the model.
EnterGenerate(o, a, r) ==
    \E id \in uuid4 :
        /\ issued' = issued \cup {id}
        /\ client' = client
        /\ IF validate_request(r) # None
           THEN LET out == Fail(templates, generation_history, r,
                                "Failed to generate template: ",
                                validate_request(r)[1])
                IN  /\ templates' = out.templates
                    /\ generation_history' = out.history
                    /\ returned' = Returned(Call(o, a, Some(r), Some(id), None),
                                            None, out.result)
                    /\ UNCHANGED inflight
           ELSE IF ~is_available(client)
           THEN LET out == handle_fallback_generation(
                               templates, generation_history, r, id)
                IN  /\ templates' = out.templates
                    /\ generation_history' = out.history
                    /\ returned' = Returned(Call(o, a, Some(r), Some(id), None),
                                            None, out.result)
                    /\ UNCHANGED inflight
           ELSE /\ Cardinality(inflight) < MaxTasks
                /\ inflight' = inflight \cup
                       {Call(o, a, Some(r), Some(id), Some(create_prompt(r)))}
                /\ UNCHANGED <<templates, generation_history, returned>>

\* POST /api/generate
Generate ==
    /\ \E r \in RequestInputs : EnterGenerate("generate", 0, r)
    /\ UNCHANGED <<limiterVars, textVars, fileVars>>

\* A variant of ModelCallEnds that leaves the attempt waiting for another
\* model call when the call raised.
ModelCallEndsRetrying ==
    /\ \E call \in inflight, replies \in ApiBehaviours :
         LET called == generate_content(client, replies)
             r == call.request[1]
             out == IF called.raised
                    THEN Fail(templates, generation_history, r,
                              "Failed to generate template: ", called.error)
                    ELSE AfterModelCall(templates, generation_history, r,
                                        call.template_id[1], called.text)
         IN  /\ templates' = out.templates
             /\ generation_history' = out.history
             /\ inflight' = IF called.raised THEN inflight
                            ELSE inflight \ {call}
             /\ returned' = Returned(call, Some(called), out.result)
    /\ UNCHANGED <<client, issued, limiterVars, textVars, fileVars>>

\* generate_template from the return of generate_content to its own return
\* (lines 237-302).
ModelCallEnds ==
    /\ \E call \in inflight, replies \in ApiBehaviours :
         LET called == generate_content(client, replies)
             r == call.request[1]
             out == IF called.raised
                    THEN Fail(templates, generation_history, r,
                              "Failed to generate template: ", called.error)
                    ELSE AfterModelCall(templates, generation_history, r,
                                        call.template_id[1], called.text)
         IN  /\ templates' = out.templates
             /\ generation_history' = out.history
             /\ inflight' = inflight \ {call}
             /\ returned' = Returned(call, Some(called), out.result)
    /\ UNCHANGED <<client, issued, limiterVars, textVars, fileVars>>

\* A variant of get_template that answers an unknown id with a template
\* that is stored.
get_any_template(store, id) ==
    IF id \in DOMAIN store THEN Some(store[id])
    ELSE IF DOMAIN store = {} THEN None
    ELSE Some(store[Min(DOMAIN store)])

\* TemplateService.get_template
get_template(store, id) == IF id \in DOMAIN store THEN Some(store[id]) ELSE None

\* A variant of RequestFromTemplate that does not carry the advanced flag
\* over.
RequestFromTemplateBasic(tpl) ==
    [raised |-> FALSE,
     request |-> Some(PhishingRequest(
         EnumParse(ScenarioType, tpl.scenario_type).member,
         EnumParse(TargetIndustry, tpl.target_industry).member,
         EnumParse(UrgencyLevel, tpl.urgency_level).member,
         EnumParse(ToneStyle, tpl.tone_style).member,
         EnumParse(Language, tpl.language).member,
         IF tpl.phishing_tactic # None
         THEN Some(EnumParse(PhishingTactic, tpl.phishing_tactic[1]).member)
         ELSE None,
         FALSE))]

\* regenerate_template, lines 437-445: the request parsed back from the
\* stored strings; any ValueError is reported.
RequestFromTemplate(tpl) ==
    LET sc == EnumParse(ScenarioType, tpl.scenario_type)
        ind == EnumParse(TargetIndustry, tpl.target_industry)
        urg == EnumParse(UrgencyLevel, tpl.urgency_level)
        tone == EnumParse(ToneStyle, tpl.tone_style)
        lang == EnumParse(Language, tpl.language)
        tac == IF tpl.phishing_tactic # None
               THEN EnumParse(PhishingTactic, tpl.phishing_tactic[1])
               ELSE [raised |-> FALSE, member |-> ""]
    IN  IF sc.raised \/ ind.raised \/ urg.raised \/ tone.raised
           \/ lang.raised \/ tac.raised
        THEN [raised |-> TRUE, request |-> None]
        ELSE [raised |-> FALSE,
              request |-> Some(PhishingRequest(
                  sc.member, ind.member, urg.member, tone.member, lang.member,
                  IF tpl.phishing_tactic # None THEN Some(tac.member) ELSE None,
                  tpl.advanced_mode))]

\* POST /api/regenerate/{template_id}: regenerate_template up to the await
\* inside generate_template.
Regenerate ==
    /\ \E id \in UuidSpace :
         LET original_template == get_template(templates, id)
             parsed == RequestFromTemplate(original_template[1])
         IN  IF original_template = None
             THEN /\ returned' = Returned(
                        Call("regenerate", id, None, None, None), None,
                        GenerationResponse(FALSE, None,
                            Some(<<"Template ", ToString(id), " not found">>)))
                  /\ UNCHANGED <<storeVars, inflight>>
             ELSE IF parsed.raised
             THEN /\ returned' = Returned(
                        Call("regenerate", id, None, None, None), None,
                        GenerationResponse(FALSE, None,
                            Some(<<"Error regenerating template: ",
                                   "is not a valid member">>)))
                  /\ UNCHANGED <<storeVars, inflight>>
             ELSE EnterGenerate("regenerate", id, parsed.request[1])
    /\ UNCHANGED <<limiterVars, textVars, fileVars>>

\* A variant of delete_template that empties the store.
delete_all_templates(store, id) ==
    IF id \in DOMAIN store
    THEN [templates |-> <<>>, ret |-> TRUE]
    ELSE [templates |-> store, ret |-> FALSE]

\* TemplateService.delete_template: the store without the id, and whether
\* the id was there.
delete_template(store, id) ==
    IF id \in DOMAIN store
    THEN [templates |-> [i \in DOMAIN store \ {id} |-> store[i]], ret |-> TRUE]
    ELSE [templates |-> store, ret |-> FALSE]

\* DELETE /api/templates/{template_id} (main.py 270-279): 200 with a
\* DeleteResponse, or 404.
Delete ==
    /\ \E id \in UuidSpace :
         LET out == delete_template(templates, id)
         IN  /\ templates' = out.templates
             /\ returned' = Returned(
                    Call("delete", id, None, None, None), None,
                    [status |-> IF out.ret THEN 200 ELSE 404,
                     success |-> out.ret, template |-> None,
                     error |-> IF out.ret THEN None
                               ELSE Some(<<"Template not found">>)])
    /\ UNCHANGED <<client, generation_history, issued, inflight, limiterVars, textVars, fileVars>>

\* A variant of get_system_stats that counts the templates ever stored.
get_cumulative_stats(store, history) ==
    [total_templates |-> Len(SelectSeq(history, LAMBDA entry : entry.success)),
     successful_generations |->
         Len(SelectSeq(history, LAMBDA entry : entry.success)),
     failed_generations |->
         Len(history) - Len(SelectSeq(history, LAMBDA entry : entry.success))]

\* TemplateService.get_system_stats (services.py 159-191): the three
\* counts.
get_system_stats(store, history) ==
    [total_templates |-> Cardinality(DOMAIN store),
     successful_generations |->
         Len(SelectSeq(history, LAMBDA entry : entry.success)),
     failed_generations |->
         Len(history) - Len(SelectSeq(history, LAMBDA entry : entry.success))]

\* GET /api/stats (main.py 350-356)
GetSystemStats ==
    /\ returned' = Returned(Call("stats", 0, None, None, None), None,
                            [status |-> 200, success |-> TRUE,
                             template |-> None, error |-> None,
                             stats |-> get_system_stats(templates,
                                                        generation_history)])
    /\ UNCHANGED <<storeVars, inflight, limiterVars, textVars, fileVars>>

\* ------------------------------------- utils.py FileManager (241-289)

\* The attributes of class FileManager.
FileManager == {"ensure_directories", "save_template_as_eml"}

\* Lines 271-276: the headers, an empty line, the body, a line end.
eml_content(template_data) ==
    <<"From: ">> \o template_data.sender_name \o <<" <">>
        \o template_data.sender_email \o <<">", "\n">>
        \o <<"Subject: ">> \o template_data.subject \o <<"\n">>
        \o <<"Content-Type: text/html; charset=utf-8", "\n">>
        \o <<"MIME-Version: 1.0", "\n">>
        \o <<"\n">>
        \o template_data.html_content \o <<"\n">>

\* Lines 278-279: output_dir / phishing_template_<id>.eml
eml_path(template_data) ==
    "output/" \o "phishing_template_" \o ToString(template_data.id) \o ".eml"

\* open(filepath, "w") and f.write(content): the file is created or replaced.
WriteFile(files, filepath, content) ==
    [p \in DOMAIN files \cup {filepath} |->
        IF p = filepath THEN content ELSE files[p]]

\* FileManager.save_template_as_eml: the files afterwards and the path
\* returned (the directory can be made and the file written).
save_template_as_eml(files, template_data) ==
    [files |-> WriteFile(files, eml_path(template_data),
                         eml_content(template_data)),
     ret |-> eml_path(template_data)]

\* FileResponse(path, filename, media_type): the file at path is sent.
FileResponse(path, filename, media_type) ==
    [status |-> 200, success |-> TRUE, template |-> None, error |-> None,
     path |-> path, filename |-> filename, media_type |-> media_type]

HTTPException(status_code, detail) ==
    [status |-> status_code, success |-> FALSE, template |-> None,
     error |-> Some(<<detail>>)]

\* GET /api/templates/{template_id}/download (main.py 211-240)
Download ==
    /\ \E id \in UuidSpace :
         LET template == get_template(templates, id)
             saved == save_template_as_eml(output,
                          [id |-> template[1].id,
                           sender_name |-> template[1].sender_name,
                           sender_email |-> template[1].sender_email,
                           subject |-> template[1].subject,
                           html_content |-> template[1].html_content])
         IN  IF template = None
             THEN /\ returned' = Returned(
                        Call("download", id, None, None, None), None,
                        HTTPException(404, "Template not found"))
                  /\ UNCHANGED output
             ELSE /\ output' = saved.files
                  /\ returned' = Returned(
                        Call("download", id, None, None, None), None,
                        FileResponse(saved.ret,
                            "phishing_template_" \o ToString(id) \o ".eml",
                            "message/rfc822"))
    /\ UNCHANGED <<storeVars, inflight, limiterVars, textVars>>

\* GET /api/templates/{template_id}/download-html (main.py 242-268): line
\* 259 looks up FileManager.save_template_as_html, which the class does not
\* have; the AttributeError is caught at line 266 and answered with 500.
DownloadHtml ==
    /\ \E id \in UuidSpace :
         LET template == get_template(templates, id)
         IN  IF template = None
             THEN returned' = Returned(
                      Call("download-html", id, None, None, None), None,
                      HTTPException(404, "Template not found"))
             ELSE /\ "save_template_as_html" \notin FileManager
                  /\ returned' = Returned(
                        Call("download-html", id, None, None, None), None,
                        HTTPException(500,
                            "Failed to create HTML download file"))
    /\ UNCHANGED <<storeVars, inflight, limiterVars, textVars, fileVars>>

\* ---------------------------------------------- utils.py RateLimiter
\* main.py line 58: RateLimiter(max_requests=10, time_window=60).
max_requests == 10
time_window == 60

\* The callers the limiter tells apart (get_client_ip).
ClientIds == {"127.0.0.1"}

\* The amounts by which time.time() is seen to advance between two calls.
ClockSteps == {time_window - 1, time_window}

\* A variant of InWindow that also keeps a time exactly one window old.
InWindowInclusive(req_time, window_start) == req_time >= window_start

\* Lines 319-322: the test that keeps a recorded time.
InWindow(req_time, window_start) == req_time > window_start

\* Lines 328-329: the ceiling test.
AtCeiling(count) == count >= max_requests

\* Lines 318-324: the recorded times of the client that stay, in order.
Pruned(reqs, client_id, t) ==
    IF client_id \in DOMAIN reqs
    THEN SelectSeq(reqs[client_id],
                   LAMBDA req_time : InWindow(req_time, t - time_window))
    ELSE <<>>

RecordedCount(reqs, client_id) ==
    IF client_id \in DOMAIN reqs THEN Len(reqs[client_id]) ELSE 0

Put(reqs, client_id, times) ==
    [c \in DOMAIN reqs \cup {client_id} |->
        IF c = client_id THEN times ELSE reqs[c]]

\* A variant of Admit that records the time of a rejected check too.
AdmitRecordingAll(reqs, client_id, t, kept) ==
    [requests |-> Put(reqs, client_id, Append(kept, t)),
     ret |-> ~AtCeiling(Len(kept))]

\* The outcome of is_allowed on the pruned list: the stored list and the
\* returned value.
Admit(reqs, client_id, t, kept) ==
    IF AtCeiling(Len(kept))
    THEN [requests |-> Put(reqs, client_id, kept), ret |-> FALSE]
    ELSE [requests |-> Put(reqs, client_id, Append(kept, t)), ret |-> TRUE]

\* RateLimiter.is_allowed at clock reading t.
is_allowed(reqs, client_id, t) ==
    Admit(reqs, client_id, t, Pruned(reqs, client_id, t))

\* What one admission check did: the caller, the clock reading, how many
\* recorded times it dropped, and its answer.
Checked(client_id, t, dropped, out) ==
    /\ requests' = out.requests
    /\ last_check' = [client_id |-> client_id, at |-> t,
                      dropped |-> dropped, allowed |-> out.ret]

\* check_rate_limit (main.py 95-99), one whole call.
CheckRateLimit ==
    /\ \E client_id \in ClientIds :
         Checked(client_id, now,
                 RecordedCount(requests, client_id)
                     - Len(Pruned(requests, client_id, now)),
                 is_allowed(requests, client_id, now))
    /\ UNCHANGED <<now, checks, storeVars, taskVars, textVars, fileVars>>

\* The clock advances.
Tick ==
    /\ \E d \in ClockSteps :
         /\ now + d <= MaxTime
         /\ now' = now + d
    /\ UNCHANGED <<requests, last_check, checks, storeVars, taskVars, textVars, fileVars>>

\* check_rate_limit is a plain function, so each request runs it on a
\* worker thread of its own, and is_allowed holds no lock: the calls
\* below are the steps of one call between which another thread may run.
Workers == 1..MaxChecks

IdleCheck == [pc |-> "idle", client_id |-> "", t |-> 0, kept |-> <<>>]

\* Lines 316-317: the call reads the clock.
BeginCheck ==
    /\ \E w \in Workers, client_id \in ClientIds :
         /\ checks[w].pc = "idle"
         /\ checks' = [checks EXCEPT ![w] =
                [pc |-> "prune", client_id |-> client_id, t |-> now,
                 kept |-> <<>>]]
    /\ UNCHANGED <<requests, now, last_check, storeVars, taskVars, textVars, fileVars>>

\* Lines 320-325, the right-hand side: the list comprehension over the
\* list stored now, or the empty list for a client not seen before.
PruneRead ==
    /\ \E w \in Workers :
         /\ checks[w].pc = "prune"
         /\ checks' = [checks EXCEPT ![w] =
                [checks[w] EXCEPT
                   !.pc = "assign",
                   !.kept = Pruned(requests, checks[w].client_id,
                                   checks[w].t)]]
    /\ UNCHANGED <<requests, now, last_check, storeVars, taskVars, textVars, fileVars>>

\* Lines 320-325, the assignment to self.requests[client_id].
PruneWrite ==
    /\ \E w \in Workers :
         /\ checks[w].pc = "assign"
         /\ requests' = Put(requests, checks[w].client_id, checks[w].kept)
         /\ checks' = [checks EXCEPT ![w].pc = "test"]
    /\ UNCHANGED <<now, last_check, storeVars, taskVars, textVars, fileVars>>

\* Lines 328-329: the ceiling test on the list stored now; at the ceiling
\* the call returns False.
CeilingTest ==
    /\ \E w \in Workers :
         /\ checks[w].pc = "test"
         /\ IF AtCeiling(RecordedCount(requests, checks[w].client_id))
            THEN /\ checks' = [checks EXCEPT ![w] = IdleCheck]
                 /\ last_check' = [client_id |-> checks[w].client_id,
                                   at |-> checks[w].t, dropped |-> 0,
                                   allowed |-> FALSE]
            ELSE /\ checks' = [checks EXCEPT ![w].pc = "append"]
                 /\ UNCHANGED last_check
    /\ UNCHANGED <<requests, now, storeVars, taskVars, textVars, fileVars>>

\* Lines 332-333: append to the list stored now and return True.
AppendNow ==
    /\ \E w \in Workers :
         /\ checks[w].pc = "append"
         /\ requests' = Put(requests, checks[w].client_id,
                            Append(requests[checks[w].client_id], checks[w].t))
         /\ checks' = [checks EXCEPT ![w] = IdleCheck]
         /\ last_check' = [client_id |-> checks[w].client_id,
                           at |-> checks[w].t, dropped |-> 0,
                           allowed |-> TRUE]
    /\ UNCHANGED <<now, storeVars, taskVars, textVars, fileVars>>

NoCalls ==
    /\ inflight = {}
    /\ returned = Returned(Call("", 0, None, None, None), None, NoResult)

IdleLimiter ==
    /\ requests = <<>>
    /\ now = 0
    /\ last_check = [client_id |-> "", at |-> 0, dropped |-> 0,
                     allowed |-> FALSE]
    /\ checks = [w \in Workers |-> IdleCheck]

NoAnswer == [fn |-> "", out |-> None]

\* An output directory without files.
NoFiles == <<>>

Given == [request_data |-> None, through |-> <<>>]

IdleText ==
    /\ document = <<>>
    /\ provenance = Given
    /\ answer = NoAnswer

\* After lifespan(): the client is there or its initialisation failed; no
\* template, no history.
Init ==
    /\ client \in {None, Some("anthropic")}
    /\ templates = <<>>
    /\ generation_history = <<>>
    /\ issued = {}
    /\ NoCalls
    /\ IdleLimiter
    /\ output = NoFiles
    /\ IdleText

Next ==
    \/ Generate
    \/ ModelCallEnds
    \/ Regenerate
    \/ Delete

Spec == Init /\ [][Next]_vars

\* A service that has already recorded PriorAttempts attempts, whose
\* templates have since been deleted: the history is CapSlack entries short
\* of max_history.
PriorAttempts == max_history - CapSlack

PriorId(k) == 0 - k

PriorHistory ==
    [k \in 1..PriorAttempts |->
        GenerationHistoryEntry(
            PhishingRequest("PASSWORD_RESET", "BANKING", "NORMAL", "FORMAL",
                            "ENGLISH", None, FALSE),
            Some(PriorId(k)), TRUE, None)]

InitCap ==
    /\ client \in {None, Some("anthropic")}
    /\ templates = <<>>
    /\ generation_history = PriorHistory
    /\ issued = {PriorId(k) : k \in 1..PriorAttempts}
    /\ NoCalls
    /\ IdleLimiter
    /\ output = NoFiles
    /\ IdleText

NextCap ==
    \/ Generate
    \/ ModelCallEnds

SpecCap == InitCap /\ [][NextCap]_vars

\* The runs of a service that is asked for its statistics: its history is
\* close to max_history and ends with the success of the one template in
\* the store, a fallback template.
FirstStored(r) ==
    EmailTemplate(1, Components(FallbackHtml(RequestDict(r))),
                  FallbackHtml(RequestDict(r)), r)

InitStats ==
    /\ client \in {None, Some("anthropic")}
    /\ \E r \in RequestInputs :
         /\ templates = [i \in {1} |-> FirstStored(r)]
         /\ generation_history
              = Append(PriorHistory,
                       GenerationHistoryEntry(r, Some(1), TRUE, None))
    /\ issued = {PriorId(k) : k \in 1..PriorAttempts} \cup {1}
    /\ NoCalls
    /\ IdleLimiter
    /\ output = NoFiles
    /\ IdleText

NextStats ==
    \/ Generate
    \/ ModelCallEnds
    \/ Regenerate
    \/ Delete
    \/ GetSystemStats

SpecStats == InitStats /\ [][NextStats]_vars

\* A store that holds one template, with field strings as an attempt
\* writes them or with one string that is the value of no member
\* (EmailTemplate takes any string for these fields).
StaleFields ==
    { <<"tone_style", "Formal">>, <<"scenario_type", "Gift Card">>,
      <<"language", "Klingon">>, <<"phishing_tactic", Some("whaling")>> }

StoredBefore ==
    { [EmailTemplate(1, Components(FallbackHtml(RequestDict(r))),
                     FallbackHtml(RequestDict(r)), r)
          EXCEPT ![f[1]] = f[2]] : r \in RequestInputs, f \in StaleFields }

InitRegen ==
    /\ client \in {None, Some("anthropic")}
    /\ templates \in {[i \in {1} |-> t] : t \in StoredBefore}
    /\ generation_history = <<>>
    /\ issued = {1}
    /\ NoCalls
    /\ IdleLimiter
    /\ output = NoFiles
    /\ IdleText

SpecRegen == InitRegen /\ [][Next]_vars

\* The admission checks of the limiter alone, on a clock that advances.
NextRL ==
    \/ CheckRateLimit
    \/ Tick

SpecRL == Init /\ [][NextRL]_vars

\* The admission checks as the thread pool runs them, step by step.
NextRLThreads ==
    \/ BeginCheck
    \/ PruneRead
    \/ PruneWrite
    \/ CeilingTest
    \/ AppendNow
    \/ Tick

SpecRLThreads == Init /\ [][NextRLThreads]_vars

\* The runs that store templates and export them.
NextExport ==
    \/ Generate
    \/ ModelCallEnds
    \/ Download
    \/ DownloadHtml

SpecExport == Init /\ [][NextExport]_vars

\* ------------------------------------------- the text functions on their own

\* Answers of the model around one fenced block: what stands before the
\* block, between the language tag and the content, the content, between
\* the content and the closing fence, and after the block.
BlockLeads == { <<>>, <<"Here is the template:", "\n">> }
BlockOpenings == { <<>>, <<"\n">>, <<" ">> }
BlockContents ==
    { <<>>,
      <<"<p>", "Dear customer", "</p>">>,
      <<"<!DOCTYPE", " ", "html>", "\n", "<html", ">", "<body>", "\n",
        "<p>", "Dear customer", "</p>", "</body>", "</html>">> }
BlockClosings == { <<>>, <<"\n">> }
BlockTrails ==
    { <<>>,
      <<"\n", "Let me know.">>,
      <<"\n", "Run it with:", "\n", Fence, "\n", "open mail.html", "\n",
        Fence>> }

FencedAnswers ==
    { lead \o <<Fence, "html">> \o opening \o content \o closing
        \o <<Fence>> \o trail :
        lead \in BlockLeads, opening \in BlockOpenings,
        content \in BlockContents, closing \in BlockClosings,
        trail \in BlockTrails }

\* Answers without any fence and without any document marker.
PlainAnswers ==
    { <<>>, Refusal, <<"Sorry,", " ", "I cannot", "\n", "do that.">>,
      <<"<p>", "Dear customer", "</p>">> }

\* Answers without a fence around a document: what stands before it, how it
\* opens, and the closing tags after its content.
DocumentLeads == { <<>>, <<"Sure.", " ">>, <<"</html>", "\n">> }
DocumentOpenings ==
    { <<"<!DOCTYPE", " ", "html>", "\n", "<html", ">">>, <<"<HTML", ">">>,
      <<"<Html", ">">>, <<"<!doctype", " ", "html>">> }
ClosingTags == { <<>>, <<"</html>">>, <<"</HTML>">> }

UnfencedAnswers ==
    { lead \o opening \o <<"<p>", "Dear customer", "</p>">> \o inner
        \o <<"\n", "<p>", "Regards", "</p>">> \o outer \o trail :
        lead \in DocumentLeads, opening \in DocumentOpenings,
        inner \in ClosingTags, outer \in ClosingTags,
        trail \in { <<>>, <<" ", "Bye">> } }

\* Subject texts: plain, padded with white space, with tags inside, and one
\* of 102 characters whose last four stand alone.
LongSubject ==
    << "Action needed ", "Action needed ", "Action needed ", "Action needed ",
       "Action needed ", "Action needed ", "Action needed ", "n", "o", "w",
       "!" >>
TitleTexts ==
    { <<"Verify your account">>, <<" ", "Action required", "\n">>,
      <<"<strong>", "Urgent", "</strong>", " notice">>,
      <<"<strong>", " ", "Urgent", "</strong>">>, LongSubject }
CommentTexts == { <<"Invoice overdue">>, <<"<strong>", "Final", "</strong>">> }
MetaTexts == { <<"Parcel held">>, LongSubject }

TitleElement(t) == <<"<title>">> \o t \o <<"</title>">>
SubjectComment(c) == <<"<!--", " ", "Subject:", " ">> \o c \o <<" ", "-->">>
SubjectMeta(m) ==
    <<"<meta", " ", "name=", "\"", "subject", "\"", " ", "content=", "\"">>
        \o m \o <<"\"", ">">>

\* Documents with any of the three subject sources, in either order.
SubjectSources ==
    { <<title, comment, meta>> :
        title \in {<<>>} \cup {TitleElement(t) : t \in TitleTexts},
        comment \in {<<>>} \cup {SubjectComment(c) : c \in CommentTexts},
        meta \in {<<>>} \cup {SubjectMeta(m) : m \in MetaTexts} }

SubjectDocuments ==
    { src[1] \o src[2] \o src[3] \o <<"<p>", "Dear customer", "</p>">> :
        src \in SubjectSources }
    \cup { src[3] \o src[2] \o src[1] \o <<"<p>", "Dear customer", "</p>">> :
             src \in SubjectSources }

\* Documents that name their sender: in a comment under either label, or
\* in the content, with or without the optional white space.
SenderLabels == {"From:", "Sender:"}
SenderNames == {"Jane Doe", "Security Team"}
SenderAddresses ==
    {"jane@fake-bank.com", "security@example.com", "help@fake-corp.net"}
Gaps == { <<>>, <<" ">> }
Bodies ==
    { <<"<p>", "Dear customer", "</p>">>,
      <<"<p>", "Verify your account", "</p>">> }

SenderLine(label, gap, name, address) ==
    <<label>> \o gap \o <<name>> \o gap \o <<"<", address, ">">>

CommentedSenders ==
    { <<"<!--">> \o gap \o SenderLine(label, gap, name, address) \o gap
        \o <<"-->", "\n">> \o body :
        label \in SenderLabels, gap \in Gaps, name \in SenderNames,
        address \in SenderAddresses, body \in Bodies }

ContentSenders ==
    { body \o <<"\n", "<p>">> \o SenderLine("From:", <<" ">>, name, address)
        \o <<"</p>">> :
        name \in SenderNames, address \in SenderAddresses, body \in Bodies }

\* Documents without any sender, with and without an industry keyword.
SenderlessDocuments == Bodies

\* Documents with and without the training disclaimer, with a link that
\* carries a fake marker or none, and with or without a real company's name.
Disclaimers == { <<>>, <<"<!--", " ", "For training only", " ", "-->", "\n">> }
LinkTargets ==
    { "http://fake-bank-verification.com/verify", "http://Test-portal.example",
      "https://login.example.com/reset" }
LinkLabels ==
    { "Verify Account Now", "Sign in at Microsoft.com",
      "Pay with google.com or amazon.com" }

LinkedDocuments ==
    { disclaimer \o <<"<a", " ", attr, quote, target, quote, ">", label, "</a>">> :
        disclaimer \in Disclaimers, attr \in {"href=", "HREF="},
        quote \in {"\"", "'"}, target \in LinkTargets, label \in LinkLabels }

\* Documents with two links.
Link(target, label) == <<"<a", " ", "href=", "\"", target, "\"", ">", label, "</a>">>

TwoLinkDocuments ==
    { disclaimer \o Link(first, "Verify Account Now") \o <<"\n">>
        \o Link(second, "Pay with google.com or amazon.com") :
        disclaimer \in Disclaimers, first \in LinkTargets,
        second \in LinkTargets }

Documents ==
    FencedAnswers \cup PlainAnswers \cup {FencedDoc, BareDoc, EmptyFence}
        \cup CommentedSenders \cup ContentSenders \cup SenderlessDocuments
        \cup LinkedDocuments \cup UnfencedAnswers \cup SubjectDocuments
        \cup TwoLinkDocuments

\* The request data of every scenario and industry.
AllFallbackDicts ==
    {[scenario_type |-> ScenarioType[sc],
      target_industry |-> TargetIndustry[ind],
      urgency_level |-> UrgencyLevel["NORMAL"],
      tone_style |-> ToneStyle["FORMAL"]] :
        sc \in DOMAIN ScenarioType, ind \in DOMAIN TargetIndustry}

\* TemplateGenerator.create_fallback_template(request_data)
CreateFallbackTemplate ==
    \E request_data \in AllFallbackDicts :
        /\ provenance = Given
        /\ answer = NoAnswer
        /\ document' = create_fallback_template(request_data)
        /\ provenance' = [request_data |-> Some(request_data),
                          through |-> <<"create_fallback_template">>]
        /\ UNCHANGED <<answer, storeVars, taskVars, limiterVars, fileVars>>

\* The caller goes on with what extract_html_from_response returned; a text
\* is extracted from once.
TakeExtracted ==
    /\ answer.fn = "extract_html_from_response"
    /\ \A k \in 1..Len(provenance.through) :
         provenance.through[k] # "extract_html_from_response"
    /\ ~Falsy(answer.out)
    /\ document' = answer.out[1]
    /\ provenance' = [provenance EXCEPT
                        !.through = Append(@, "extract_html_from_response")]
    /\ answer' = NoAnswer
    /\ UNCHANGED <<storeVars, taskVars, limiterVars, fileVars>>

\* ValidationHelper.validate_html_safety(document)
ValidateHtmlSafety ==
    /\ answer' = [fn |-> "validate_html_safety",
                  out |-> validate_html_safety(document)]
    /\ UNCHANGED <<document, provenance, storeVars, taskVars, limiterVars, fileVars>>

\* HTMLExtractor.extract_html_from_response(document)
ExtractHtmlFromResponse ==
    /\ answer' = [fn |-> "extract_html_from_response",
                  out |-> extract_html_from_response(document)]
    /\ UNCHANGED <<document, provenance, storeVars, taskVars, limiterVars, fileVars>>

\* EmailComponentExtractor.extract_email_components(document)
ExtractEmailComponents ==
    /\ answer' = [fn |-> "extract_email_components",
                  out |-> extract_email_components(document)]
    /\ UNCHANGED <<document, provenance, storeVars, taskVars, limiterVars, fileVars>>

InitText ==
    /\ client \in {None, Some("anthropic")}
    /\ templates = <<>>
    /\ generation_history = <<>>
    /\ issued = {}
    /\ NoCalls
    /\ IdleLimiter
    /\ output = NoFiles
    /\ document \in Documents
    /\ provenance = Given
    /\ answer = NoAnswer

NextText ==
    \/ CreateFallbackTemplate
    \/ ExtractHtmlFromResponse
    \/ TakeExtracted
    \/ ExtractEmailComponents
    \/ ValidateHtmlSafety

SpecText == InitText /\ [][NextText]_vars

\* ------------------------------------------------------------- properties

\* The call that returned last was a generation attempt.
AttemptReturned == returned.request # None

\* A text with at least one character.
NonEmptyText(e) == e # None /\ \E i \in 1..Len(e[1]) : e[1][i] # ""

LastEntry == generation_history[Len(generation_history)]

\* The attempt that returned last ended in a stored fallback template.
EndedInFallback ==
    /\ returned.result.success
    /\ returned.result.template # None
    /\ returned.result.template[1].html_content
         = FallbackHtml(RequestDict(returned.request[1]))
    /\ returned.template_id[1] \in DOMAIN templates
    /\ templates[returned.template_id[1]] = returned.result.template[1]
    /\ generation_history # <<>>
    /\ LastEntry.success
    /\ LastEntry.template_id = returned.template_id

\* C1: a generation attempt returns either a success whose template echoes
\* the six request fields as the string values of the request's members, or
\* a failure with a non-empty error and no template stored under the
\* attempt's identifier.
C1_GenerateEchoesOrFails ==
    AttemptReturned =>
        LET r == returned.request[1]
            res == returned.result
        IN  \/ /\ res.success
               /\ res.template # None
               /\ res.template[1].scenario_type = ScenarioType[r.scenario_type]
               /\ res.template[1].target_industry
                    = TargetIndustry[r.target_industry]
               /\ res.template[1].urgency_level = UrgencyLevel[r.urgency_level]
               /\ res.template[1].tone_style = ToneStyle[r.tone_style]
               /\ res.template[1].language = Language[r.language]
               /\ res.template[1].phishing_tactic
                    = IF r.phishing_tactic = None THEN None
                      ELSE Some(PhishingTactic[r.phishing_tactic[1]])
            \/ /\ ~res.success
               /\ NonEmptyText(res.error)
               /\ res.template = None
               /\ returned.template_id[1] \notin DOMAIN templates

\* A request with a tactic came back from the model path as a success.
C1_Witness ==
    /\ returned.op = "generate"
    /\ AttemptReturned
    /\ returned.api # None
    /\ returned.result.success
    /\ returned.request[1].phishing_tactic # None
    /\ returned.request[1].urgency_level = "HIGH"

\* A step on which a generation attempt ends: a model call returns, or an
\* identifier is drawn and no model call is started.
AttemptEnds ==
    \/ inflight' # inflight /\ inflight' \subseteq inflight
    \/ issued' # issued /\ inflight' = inflight

\* C2: every generation attempt appends exactly one history entry, with
\* success=true when it ends in a success and with success=false and a
\* non-empty error when it fails; no other step touches the history.
C2_OneHistoryEntryPerAttempt ==
    [][IF AttemptEnds
       THEN /\ Len(generation_history') = Len(generation_history) + 1
            /\ SubSeq(generation_history', 1, Len(generation_history))
                 = generation_history
            /\ LastEntry'.success = returned'.result.success
            /\ LastEntry'.request = returned'.request[1]
            /\ ~LastEntry'.success => NonEmptyText(LastEntry'.error)
       ELSE generation_history' = generation_history]_vars

\* The history holds a success and, after it, a failure.
C2_Witness ==
    /\ Len(generation_history) >= 2
    /\ generation_history[1].success
    /\ ~LastEntry.success
    /\ NonEmptyText(LastEntry.error)

\* C3: when the client is available and its call raises, the attempt falls
\* back and ends as a success with a stored fallback template and a success
\* entry in the history.
C3_ClientErrorFallsBack ==
    (/\ AttemptReturned
     /\ returned.api # None
     /\ returned.api[1].raised)
        => EndedInFallback

\* C4: when the model call returns a text from which extraction yields
\* nothing (None or the empty string), the attempt ends as a success whose
\* stored body is the synthesized fallback HTML, with a success entry in
\* the history.
C4_NoHtmlFallsBack ==
    (/\ AttemptReturned
     /\ returned.api # None
     /\ ~returned.api[1].raised
     /\ ExtractHtml(returned.api[1].text) \in {None, Some(<<>>)})
        => EndedInFallback

\* The model answered with a fence that encloses nothing, and the attempt
\* succeeded.
C4_Witness ==
    /\ AttemptReturned
    /\ returned.api # None
    /\ ~returned.api[1].raised
    /\ returned.api[1].text = EmptyFence
    /\ returned.result.success

\* C5: with the client unavailable no prompt is built and no model call is
\* made, and every attempt ends as a success with a stored fallback
\* template.
C5_UnavailableGoesToFallback ==
    client = None =>
        /\ inflight = {}
        /\ AttemptReturned =>
             /\ returned.prompt = None
             /\ returned.api = None
             /\ EndedInFallback

\* Without a client, an attempt has returned.
C5_Witness ==
    /\ client = None
    /\ AttemptReturned
    /\ returned.op = "generate"
    /\ returned.result.success
    /\ returned.api = None


\* C6: the history never holds more than max_history entries; the entry of
\* an attempt that ends is always the last one, an append that would exceed
\* max_history drops exactly the oldest entries, and the entries that stay
\* keep their order (under SpecCap).
C6_HistoryCapFifo ==
    /\ [](Len(generation_history) <= max_history)
    /\ [][AttemptEnds =>
            LET h == generation_history
                kept == generation_history'
                dropped == Len(h) + 1 - Len(kept)
            IN  /\ dropped = IF Len(h) + 1 > max_history
                             THEN Len(h) + 1 - max_history ELSE 0
                /\ \A i \in 1..(Len(kept) - 1) : kept[i] = h[i + dropped]
                /\ kept[Len(kept)].request = returned'.request[1]
                /\ kept[Len(kept)].template_id \notin
                     {h[i].template_id : i \in 1..Len(h)} \ {None}]_vars

\* The history is full, its first recorded entry is gone and the entries
\* of the new attempts follow the last prior one.
C6_Witness ==
    /\ Len(generation_history) = max_history
    /\ generation_history[1] # PriorHistory[1]
    /\ \E i \in 1..(max_history - 1) :
         /\ generation_history[i] = PriorHistory[PriorAttempts]
         /\ generation_history[i + 1].request \in RequestInputs

\* C7: regenerate of an identifier that is not stored returns a failure
\* whose error says "not found", makes no model call, draws no identifier
\* and leaves store and history as they are.
C7_RegenerateUnknownFails ==
    [][/\ \A call \in inflight' \ inflight :
            call.op = "regenerate" => call.arg \in DOMAIN templates
       /\ (/\ returned'.op = "regenerate"
           /\ inflight' = inflight
           /\ returned'.arg \notin DOMAIN templates)
            => /\ ~returned'.result.success
               /\ returned'.result.error # None
               /\ \E i \in 1..Len(returned'.result.error[1]) :
                     returned'.result.error[1][i] = " not found"
               /\ returned'.result.template = None
               /\ returned'.api = None
               /\ returned'.prompt = None
               /\ templates' = templates
               /\ generation_history' = generation_history
               /\ issued' = issued]_vars

\* A regenerate of an unknown identifier failed while the store held a
\* template.
C7_Witness ==
    /\ returned.op = "regenerate"
    /\ ~returned.result.success
    /\ returned.request = None
    /\ DOMAIN templates # {}
    /\ returned.arg \notin DOMAIN templates

\* The fields a template echoes from its request.
SameRequestFields(a, b) ==
    /\ a.scenario_type = b.scenario_type
    /\ a.target_industry = b.target_industry
    /\ a.urgency_level = b.urgency_level
    /\ a.tone_style = b.tone_style
    /\ a.language = b.language
    /\ a.phishing_tactic = b.phishing_tactic
    /\ a.advanced_mode = b.advanced_mode

\* C8: a regenerate that succeeds stores a template under an identifier
\* that is new and differs from the given one, leaves every stored template
\* (the original included) as it was, and the new template echoes the
\* original's request fields, the advanced flag included.
C8_RegenerateMakesNewTemplate ==
    [][(/\ returned' # returned
        /\ returned'.op = "regenerate"
        /\ returned'.result.success)
         => LET new == returned'.result.template[1]
                id == returned'.arg
            IN  /\ new.id # id
                /\ new.id \notin DOMAIN templates
                /\ DOMAIN templates' = DOMAIN templates \cup {new.id}
                /\ \A i \in DOMAIN templates : templates'[i] = templates[i]
                /\ templates'[new.id] = new
                /\ id \in DOMAIN templates =>
                     SameRequestFields(new, templates[id])]_vars

\* A regenerate of a stored advanced-mode template succeeded, and original
\* and new template are both stored.
C8_Witness ==
    /\ returned.op = "regenerate"
    /\ returned.result.success
    /\ returned.arg \in DOMAIN templates
    /\ returned.template_id[1] \in DOMAIN templates
    /\ templates[returned.arg].advanced_mode
    /\ templates[returned.arg].phishing_tactic # None

\* C9: delete of a stored identifier answers true and removes that template
\* and no other; delete of an identifier that is not stored answers false
\* (404) and leaves the store as it is.
C9_DeleteRemovesExactlyOne ==
    [][returned'.op = "delete" /\ returned' # returned =>
         LET id == returned'.arg
         IN  IF id \in DOMAIN templates
             THEN /\ returned'.result.success
                  /\ returned'.result.status = 200
                  /\ DOMAIN templates' = DOMAIN templates \ {id}
                  /\ \A i \in DOMAIN templates' : templates'[i] = templates[i]
             ELSE /\ ~returned'.result.success
                  /\ returned'.result.status = 404
                  /\ templates' = templates]_vars

\* A delete succeeded and another template is still stored.
C9_Witness ==
    /\ returned.op = "delete"
    /\ returned.result.success
    /\ returned.arg \notin DOMAIN templates
    /\ DOMAIN templates # {}

\* The times recorded for a client.
Recorded(reqs, c) == IF c \in DOMAIN reqs THEN reqs[c] ELSE <<>>

\* How many of them lie less than one window before t.
RecentCount(reqs, c, t) ==
    Cardinality({i \in 1..Len(Recorded(reqs, c)) :
                    Recorded(reqs, c)[i] + time_window > t})

\* C10: sequential checks of one client: a check that finds fewer than
\* max_requests admissions in the last time_window seconds is admitted and
\* recorded, one that finds max_requests of them is rejected, never more
\* than max_requests admissions are recorded within the last time_window
\* seconds, and a check made once time_window has passed since the earliest
\* recorded admission is admitted (under SpecRL).
C10_AdmissionWindow ==
    /\ [](\A c \in ClientIds : RecentCount(requests, c, now) <= max_requests)
    /\ [][now' = now =>
            LET c == last_check'.client_id
                before == Recorded(requests, c)
                recent == RecentCount(requests, c, now)
            IN  /\ last_check'.at = now
                /\ recent < max_requests =>
                     /\ last_check'.allowed
                     /\ RecentCount(requests', c, now) = recent + 1
                /\ recent >= max_requests => ~last_check'.allowed
                /\ (before # <<>> /\ now >= before[1] + time_window)
                     => last_check'.allowed]_vars

\* A check found the list full, dropped admissions that were a window old
\* and was admitted.
C10_Witness ==
    /\ last_check.allowed
    /\ last_check.dropped > 0
    /\ \E c \in ClientIds :
         /\ c = last_check.client_id
         /\ Len(Recorded(requests, c)) = max_requests
         /\ Recorded(requests, c)[max_requests] = now

\* How often the time v is recorded for client c.
CountOf(reqs, c, v) ==
    Cardinality({i \in 1..Len(Recorded(reqs, c)) : Recorded(reqs, c)[i] = v})

\* C11: with admission checks of one client running concurrently, no step
\* removes a recorded time that still lies inside the window, and never
\* more than max_requests admissions are recorded inside one window (under
\* SpecRLThreads).
C11_ConcurrentChecksLoseNothing ==
    /\ [](\A c \in ClientIds : RecentCount(requests, c, now) <= max_requests)
    /\ [][\A c \in ClientIds : \A v \in 0..MaxTime :
            v + time_window > now
                => CountOf(requests', c, v) >= CountOf(requests, c, v)]_vars

\* The positions of the success entries of a history.
SuccessEntries(history) == {i \in 1..Len(history) : history[i].success}

\* C12: whatever the interleaving of generate, regenerate and delete, a
\* successful attempt adds its template under an id not stored before,
\* changes no other template and appends its own success entry after all
\* entries there; no other step but a delete changes the store, and no
\* step removes or rewrites a history entry.  So every stored template is
\* filed under its own id with exactly one success entry.
C12_ConcurrentAttemptsKeepUpdates ==
    /\ [](\A id \in DOMAIN templates :
            /\ templates[id].id = id
            /\ Cardinality({i \in SuccessEntries(generation_history) :
                   generation_history[i].template_id = Some(id)}) = 1)
    /\ [][IF AttemptEnds /\ returned'.result.success
          THEN LET new == returned'.result.template[1]
               IN  /\ new.id \notin DOMAIN templates
                   /\ DOMAIN templates' = DOMAIN templates \cup {new.id}
                   /\ \A i \in DOMAIN templates : templates'[i] = templates[i]
                   /\ templates'[new.id] = new
                   /\ generation_history'
                        = Append(generation_history,
                                 GenerationHistoryEntry(
                                     returned'.request[1], Some(new.id),
                                     TRUE, None))
          ELSE /\ templates' # templates => returned'.op = "delete"
               /\ SuccessEntries(generation_history')
                    = SuccessEntries(generation_history)
               /\ SubSeq(generation_history', 1, Len(generation_history))
                    = generation_history]_vars

\* Two attempts overlapped (the one that drew its id first finished last),
\* both succeeded, and both templates and both entries are there.
C12_Witness ==
    /\ Len(generation_history) = 2
    /\ generation_history[1].success
    /\ generation_history[2].success
    /\ generation_history[1].template_id = Some(2)
    /\ generation_history[2].template_id = Some(1)
    /\ DOMAIN templates = {1, 2}

\* The first fenced html block of a text: where its opening fence stands
\* (0: none) and where the next fence after the language tag stands.
BlockStart(text) ==
    LET opens == {i \in 1..Len(text) : At(text, i, <<Fence, "html">>)}
    IN  IF opens = {} THEN 0 ELSE Min(opens)

BlockEnd(text) ==
    LET closes == {j \in (BlockStart(text) + 2)..Len(text) : text[j] = Fence}
    IN  IF BlockStart(text) = 0 \/ closes = {} THEN 0 ELSE Min(closes)

\* Neither a fence nor a DOCTYPE or html marker in any case.
Markerless(text) ==
    \A i \in 1..Len(text) :
        /\ text[i] # Fence
        /\ lower(text[i]) \notin {"<!doctype", "<html", "</html>"}

\* C13: on a text with a fenced html block extract_html_from_response
\* returns the text between the language tag and the closing fence,
\* stripped; on a text without fence and without document marker it returns
\* None (under SpecText).
C13_FencedBlockExtracted ==
    answer.fn = "extract_html_from_response" =>
        /\ BlockEnd(document) # 0 =>
             answer.out = Some(strip(SubSeq(document, BlockStart(document) + 2,
                                            BlockEnd(document) - 1)))
        /\ Markerless(document) => answer.out = None

\* The document names this sender: a label, the name and the address in
\* angle brackets.
NamesSender(text, name, address) ==
    \E i \in 1..Len(text) : \E label \in SenderLabels : \E gap \in Gaps :
        At(text, i, SenderLine(label, gap, name, address))

\* C14: on a document in which a sender pattern matches,
\* extract_email_components returns the captured name and address as they
\* stand, whatever they are; the sender is inferred from the industry only
\* when no sender pattern matched (under SpecText).
C14_MatchedSenderVerbatim ==
    answer.fn = "extract_email_components" =>
        \A name \in SenderNames : \A address \in SenderAddresses :
            NamesSender(document, name, address) =>
                /\ answer.out.sender_name = <<name>>
                /\ answer.out.sender_email = <<address>>

\* No title, subject comment or subject meta tag in the document.
NoSubjectSource(text) ==
    \A i \in 1..Len(text) : fold(text[i]) \notin {"<title>", "subject:", "<meta"}

\* No sender label and no industry keyword in the document.
NoSenderSource(text) ==
    \A i \in 1..Len(text) :
        text[i] \notin SenderLabels /\ KeywordsIn(text[i]) = {}

\* C15: extract_email_components returns, for every document, a record with
\* the three fields subject, sender_name and sender_email; without a subject
\* source the subject is "Generated Phishing Email", and without a sender
\* pattern and industry keyword the sender is Support Team,
\* support@fake-secureservices.net (under SpecText).
C15_ComponentsAlwaysComplete ==
    answer.fn = "extract_email_components" =>
        /\ DOMAIN answer.out = {"subject", "sender_name", "sender_email"}
        /\ NoSubjectSource(document) =>
             answer.out.subject = <<"Generated Phishing Email">>
        /\ NoSenderSource(document) =>
             /\ answer.out.sender_name = <<"Support Team">>
             /\ answer.out.sender_email = <<"support@fake-secureservices.net">>

C15_Witness ==
    /\ answer.fn = "extract_email_components"
    /\ document = <<"<p>", "Dear customer", "</p>">>
    /\ answer.out = [subject |-> <<"Generated Phishing Email">>,
                     sender_name |-> <<"Support Team">>,
                     sender_email |-> <<"support@fake-secureservices.net">>]

\* The document was synthesized from request data and then extracted.
RoundTripped ==
    provenance.through =
        <<"create_fallback_template", "extract_html_from_response">>

\* C16: for every industry and scenario the fallback document goes through
\* extract_html_from_response, and extract_email_components then returns the
\* sender name and address of the industry's entry in the lookup table;
\* validate_html_safety finds the document safe, with no issue (under
\* SpecText).
C16_FallbackRoundTrip ==
    provenance.request_data # None =>
        /\ answer.fn = "extract_html_from_response" => ~Falsy(answer.out)
        /\ answer.fn = "extract_email_components" /\ RoundTripped =>
             /\ answer.out.sender_name =
                  <<industry_senders[provenance.request_data[1].target_industry][1]>>
             /\ answer.out.sender_email =
                  <<industry_senders[provenance.request_data[1].target_industry][2]>>
        /\ answer.fn = "validate_html_safety" =>
             answer.out = [is_safe |-> TRUE, issues |-> <<>>]

C16_Witness ==
    /\ RoundTripped
    /\ provenance.request_data[1].target_industry = "Shipping Company"
    /\ provenance.request_data[1].scenario_type = "Account Lock"
    /\ answer.fn = "extract_email_components"
    /\ answer.out.sender_name = <<"Delivery Notice">>
    /\ answer.out.sender_email = <<"tracking@fake-shipping.com">>

\* The model call of the attempt that ends on this step raised.
ModelCallRaised == returned'.api # None /\ returned'.api[1].raised

DocumentExtracted ==
    /\ AttemptReturned
    /\ returned.api # None
    /\ ~returned.api[1].raised
    /\ ~Falsy(ExtractHtml(returned.api[1].text))

\* C18: what validate_html_safety finds does not change the outcome of an
\* attempt: whenever a document is extracted from the model's text, safe or
\* not, the attempt stores a template with that document as its body and
\* is recorded as a success.
C18_SafetyFindingsOnlyLogged ==
    DocumentExtracted =>
        /\ returned.result.success
        /\ returned.result.template # None
        /\ returned.result.template[1].html_content
             = ExtractHtml(returned.api[1].text)[1]
        /\ returned.template_id[1] \in DOMAIN templates
        /\ templates[returned.template_id[1]].html_content
             = ExtractHtml(returned.api[1].text)[1]
        /\ LastEntry.success
        /\ LastEntry.template_id = returned.template_id

\* A document with safety issues was stored, and a safe one too.
C18_Witness ==
    /\ DocumentExtracted
    /\ returned.result.success
    /\ ~validate_html_safety(returned.result.template[1].html_content).is_safe
    /\ \E id \in DOMAIN templates :
         validate_html_safety(templates[id].html_content).is_safe

\* The identifiers under which the attempts recorded in a history stored
\* their templates.
AssignedIds(history) ==
    {history[i].template_id[1] : i \in SuccessEntries(history)}

\* C19: template identifiers are unique and never used again: every stored
\* template is keyed by its own id, no two successes of the history carry
\* the same id, and a successful attempt stores under an id that no earlier
\* template had, deleted ones included, so it overwrites no entry of the
\* store.
C19_IdentifiersNeverReused ==
    /\ [](/\ \A id \in DOMAIN templates : templates[id].id = id
          /\ \A i, j \in SuccessEntries(generation_history) :
               generation_history[i].template_id
                   = generation_history[j].template_id => i = j)
    /\ [][AttemptEnds /\ returned'.result.success =>
            /\ returned'.result.template[1].id = returned'.template_id[1]
            /\ returned'.template_id[1] \notin AssignedIds(generation_history)
            /\ returned'.template_id[1] \notin DOMAIN templates
            /\ \A id \in DOMAIN templates : templates'[id] = templates[id]]_vars

\* A template was deleted and a later attempt stored its template under
\* another identifier.
C19_Witness ==
    \E i, j \in SuccessEntries(generation_history) :
        /\ i < j
        /\ generation_history[i].template_id[1] \notin DOMAIN templates
        /\ generation_history[j].template_id[1] \in DOMAIN templates
        /\ returned.op = "generate"
        /\ returned.template_id = generation_history[j].template_id

\* What the model call of the attempt that returned last did.
LastCall == returned.api[1]

\* C20: one generate_content call tries the candidate models in the order
\* of models_to_try; the first candidate that answers returns its text and
\* no later candidate is tried; the call raises only after every candidate
\* has failed, and then with the error of the last candidate.
C20_ModelsTriedInOrder ==
    (AttemptReturned /\ returned.api # None /\ client # None) =>
        /\ Len(LastCall.log) \in 1..Len(models_to_try)
        /\ \A n \in 1..Len(LastCall.log) :
             LastCall.log[n].model = models_to_try[n]
        /\ \A n \in 1..(Len(LastCall.log) - 1) : ~LastCall.log[n].ok
        /\ ~LastCall.raised =>
             /\ LastCall.log[Len(LastCall.log)].ok
             /\ LastCall.text = LastCall.log[Len(LastCall.log)].text
             /\ LastCall.model = models_to_try[Len(LastCall.log)]
        /\ LastCall.raised =>
             /\ Len(LastCall.log) = Len(models_to_try)
             /\ ~LastCall.log[Len(LastCall.log)].ok
             /\ LastCall.error
                  = <<"All models failed. Last error: ",
                      LastCall.log[Len(models_to_try)].err>>

\* The first candidate failed, the second answered and was the last one
\* tried.
C20_Witness ==
    /\ AttemptReturned
    /\ returned.api # None
    /\ ~LastCall.raised
    /\ Len(LastCall.log) = 2
    /\ ~LastCall.log[1].ok
    /\ LastCall.model = "claude-3-sonnet-20240229"
    /\ LastCall.text = BareDoc

\* The export that returned last was asked for a template of the store.
ExportedStored(op) ==
    /\ returned.op = op
    /\ returned.arg \in DOMAIN templates

\* C21: for every template of the store the html export answers with a
\* file whose content is the template's body, and the eml export answers
\* with a file that holds the From, Subject, Content-Type and MIME-Version
\* headers, an empty line and the body as it is (under SpecExport).
C21_ExportsSucceed ==
    /\ ExportedStored("download-html") =>
         /\ returned.result.status = 200
         /\ "path" \in DOMAIN returned.result
         /\ returned.result.path \in DOMAIN output
         /\ output[returned.result.path] = templates[returned.arg].html_content
    /\ ExportedStored("download") =>
         /\ returned.result.status = 200
         /\ returned.result.path \in DOMAIN output
         /\ output[returned.result.path]
              = <<"From: ">> \o templates[returned.arg].sender_name
                  \o <<" <">> \o templates[returned.arg].sender_email
                  \o <<">", "\n", "Subject: ">>
                  \o templates[returned.arg].subject
                  \o <<"\n", "Content-Type: text/html; charset=utf-8", "\n",
                       "MIME-Version: 1.0", "\n", "\n">>
                  \o templates[returned.arg].html_content \o <<"\n">>

\* A text without any fence that holds a DOCTYPE or html marker in some
\* letter case.
UnfencedMarked(text) ==
    /\ \A i \in 1..Len(text) : text[i] # Fence
    /\ \E i \in 1..Len(text) : lower(text[i]) \in {"<!doctype", "<html"}

\* The earliest of the three start markers and the last of the two closing
\* tags, whichever of them stands later (0: none).
EarliestStart(text) ==
    LET hits == {i \in 1..Len(text) : text[i] \in {"<!DOCTYPE", "<html", "<HTML"}}
    IN  IF hits = {} THEN 0 ELSE Min(hits)

LatestClose(text) ==
    LET hits == {i \in 1..Len(text) : text[i] \in {"</html>", "</HTML>"}}
    IN  IF hits = {} THEN 0 ELSE Max(hits)

\* C22: on a text without fence that holds a DOCTYPE or html marker in any
\* letter case, extract_html_from_response returns the stripped text from
\* the earliest of <!DOCTYPE, <html, <HTML up to and with the last closing
\* tag among </html> and </HTML>, whichever stands later (under SpecText).
C22_UpToLatestClosingTag ==
    ( /\ answer.fn = "extract_html_from_response"
      /\ UnfencedMarked(document)
      /\ EarliestStart(document) # 0
      /\ LatestClose(document) # 0 ) =>
        answer.out = Some(strip(SubSeq(document, EarliestStart(document),
                                       LatestClose(document))))

\* The subject each subject text stands for: stripped, then without its
\* tags, then its first 100 characters.
ExpectedSubject(raw) ==
    CASE raw = <<"Verify your account">> -> <<"Verify your account">>
      [] raw = <<" ", "Action required", "\n">> -> <<"Action required">>
      [] raw = <<"<strong>", "Urgent", "</strong>", " notice">>
           -> <<"Urgent", " notice">>
      [] raw = <<"<strong>", " ", "Urgent", "</strong>">> -> <<" ", "Urgent">>
      [] raw = <<"Invoice overdue">> -> <<"Invoice overdue">>
      [] raw = <<"<strong>", "Final", "</strong>">> -> <<"Final">>
      [] raw = <<"Parcel held">> -> <<"Parcel held">>
      [] raw = LongSubject
           -> << "Action needed ", "Action needed ", "Action needed ",
                 "Action needed ", "Action needed ", "Action needed ",
                 "Action needed ", "n", "o" >>

Holds(text, part) == \E i \in 1..Len(text) : At(text, i, part)

HasTitleElement(text) ==
    \E i \in 1..Len(text) : \E j \in (i + 1)..Len(text) :
        fold(text[i]) = "<title>" /\ fold(text[j]) = "</title>"

HasSubjectComment(text) ==
    \E c \in CommentTexts : Holds(text, SubjectComment(c))

\* C23: extract_email_components takes the subject from the title when
\* there is one, else from the Subject comment when there is one, else from
\* the subject meta tag; the subject holds no tag and is never longer than
\* 100 characters (under SpecText).
C23_SubjectFromFirstSource ==
    answer.fn = "extract_email_components" =>
        /\ CharLen(answer.out.subject) <= 100
        /\ \A k \in 1..Len(answer.out.subject) : ~IsTag(answer.out.subject[k])
        /\ \A t \in TitleTexts :
             Holds(document, TitleElement(t)) =>
                 answer.out.subject = ExpectedSubject(t)
        /\ \A c \in CommentTexts :
             (~HasTitleElement(document) /\ Holds(document, SubjectComment(c)))
                 => answer.out.subject = ExpectedSubject(c)
        /\ \A m \in MetaTexts :
             ( /\ ~HasTitleElement(document)
               /\ ~HasSubjectComment(document)
               /\ Holds(document, SubjectMeta(m)) )
                 => answer.out.subject = ExpectedSubject(m)

\* The subject was taken from a title that stands after a Subject comment
\* and a subject meta tag, and was cut to 100 characters.
C23_Witness ==
    /\ answer.fn = "extract_email_components"
    /\ Holds(document, SubjectMeta(<<"Parcel held">>)
                 \o SubjectComment(<<"Invoice overdue">>)
                 \o TitleElement(LongSubject))
    /\ answer.out.subject = ExpectedSubject(LongSubject)
    /\ CharLen(answer.out.subject) = 100

\* The link targets without any of the markers fake-, phishing-, test-,
\* training- in whatever letter case.
UnmarkedTargets == {"https://login.example.com/reset"}

\* The values of the quoted href attributes of a text.
HrefValues(text) ==
    {text[i + 2] : i \in {j \in 1..(Len(text) - 3) :
                            /\ text[j] \in {"href=", "HREF="}
                            /\ Quote(text[j + 1]) /\ Quote(text[j + 3])}}

HasDisclaimer(text) ==
    \E i \in 1..Len(text) : Contains(text[i], "For training only")

\* The company's domain stands in the text, in whatever letter case.
Mentions(text, company) ==
    \E i \in 1..Len(text) : Contains(str_lower(text[i]), company)

IssuesOf(out, text) == {k \in 1..Len(out.issues) : out.issues[k].issue = text}

\* C24: validate_html_safety reports a text as safe exactly when it has no
\* issue; a text without the training disclaimer has the disclaimer issue,
\* every href value without any of the four markers is listed in the issue
\* on real URLs, every real company domain in the text has an issue of its
\* own, and the three checks fire independently of one another (under
\* SpecText).
C24_SafetyChecksIndependent ==
    answer.fn = "validate_html_safety" =>
        /\ answer.out.is_safe <=> answer.out.issues = <<>>
        /\ answer.out.is_safe <=>
             /\ HasDisclaimer(document)
             /\ HrefValues(document) \cap UnmarkedTargets = {}
             /\ \A n \in 1..Len(real_companies) :
                  ~Mentions(document, real_companies[n])
        /\ ~HasDisclaimer(document) <=>
             IssuesOf(answer.out, "Missing training disclaimer") # {}
        /\ \A t \in LinkTargets :
             (t \in HrefValues(document) /\ t \in UnmarkedTargets) <=>
                 \E k \in IssuesOf(answer.out, "Contains potentially real URLs") :
                     \E u \in 1..Len(answer.out.issues[k].about) :
                         answer.out.issues[k].about[u] = <<t>>
        /\ \A n \in 1..Len(real_companies) :
             Cardinality({k \in IssuesOf(answer.out,
                                         "Contains reference to real company") :
                            answer.out.issues[k].about = <<real_companies[n]>>})
               = IF Mentions(document, real_companies[n]) THEN 1 ELSE 0

\* All three checks fired on one document: no disclaimer, a link to a real
\* address next to a fake one, and two company domains.
C24_Witness ==
    /\ answer.fn = "validate_html_safety"
    /\ ~HasDisclaimer(document)
    /\ HrefValues(document) = {"https://login.example.com/reset",
                               "http://fake-bank-verification.com/verify"}
    /\ Len(answer.out.issues) = 4
    /\ ~answer.out.is_safe

\* The recorded times of a client that lie less than one window before t,
\* in their order.
StillInWindow(reqs, c, t) ==
    SelectSeq(Recorded(reqs, c), LAMBDA v : v + time_window > t)

\* C25: a rejected admission check records no time: after it the client's
\* list holds exactly the times that it held before and that still lie in
\* the window, so the earliest of them, which decides when the client is
\* admitted again, is not moved (under SpecRL).
C25_RejectionRecordsNothing ==
    [][(now' = now /\ ~last_check'.allowed) =>
          /\ Recorded(requests', last_check'.client_id)
               = StillInWindow(requests, last_check'.client_id, now)
          /\ CountOf(requests', last_check'.client_id, now)
               = CountOf(requests, last_check'.client_id, now)]_vars

\* A check was rejected some time after the last admission, and the list
\* holds the max_requests admissions and nothing for the rejected check.
C25_Witness ==
    /\ last_check.client_id \in ClientIds
    /\ ~last_check.allowed
    /\ last_check.at = now
    /\ Len(Recorded(requests, last_check.client_id)) = max_requests
    /\ Recorded(requests, last_check.client_id)[max_requests] < now

\* C26: whatever generate, regenerate and delete operations came before,
\* the statistics give the number of templates stored now, the number of
\* success entries the history holds now, and a number of failures that
\* adds up with it to the length of the history, which is at most
\* max_history (under SpecStats).
C26_StatsReflectCurrentState ==
    returned.op = "stats" =>
        /\ returned.result.stats.total_templates = Cardinality(DOMAIN templates)
        /\ returned.result.stats.successful_generations
             = Cardinality(SuccessEntries(generation_history))
        /\ returned.result.stats.successful_generations
             + returned.result.stats.failed_generations
             = Len(generation_history)
        /\ returned.result.stats.successful_generations
             + returned.result.stats.failed_generations <= max_history

\* The statistics were taken when the history was full and had lost an
\* entry, after a template had been deleted and an attempt had failed.
C26_Witness ==
    /\ returned.op = "stats"
    /\ returned.result.stats.successful_generations
         + returned.result.stats.failed_generations = max_history
    /\ returned.result.stats.failed_generations > 0
    /\ returned.result.stats.total_templates
         < Cardinality({i \in SuccessEntries(generation_history) :
                           generation_history[i].template_id[1] \in UuidSpace})

\* The attempt that returns on this step is over: it is not waiting for a
\* model call any more, and it is in exactly one of the two terminal states.
Terminated ==
    /\ \A call \in inflight' : call.template_id # returned'.template_id
    /\ Len(generation_history') = Len(generation_history) + 1
    /\ IF returned'.result.success
       THEN /\ returned'.template_id[1] \in DOMAIN templates'
            /\ LastEntry'.success
            /\ LastEntry'.template_id = returned'.template_id
       ELSE /\ returned'.template_id[1] \notin DOMAIN templates'
            /\ ~LastEntry'.success

\* C27: every generation attempt ends in exactly one of success and
\* failure, after at most one call of generate_content and at most one
\* fallback synthesis: an attempt starts waiting for the model only on the
\* step that draws its identifier, the return of its model call ends it,
\* a fallback template is made only on the step that ends the attempt, and
\* an attempt that has ended never runs again.
C27_OneCallOneFallback ==
    [][/\ \A call \in inflight' \ inflight :
            /\ call.template_id[1] \notin issued
            /\ call.template_id[1] \in issued'
            /\ inflight \subseteq inflight'
       /\ \A call \in inflight \ inflight' :
            /\ returned'.template_id = call.template_id
            /\ returned'.api # None
            /\ inflight' = inflight \ {call}
       /\ \A call \in inflight' :
            /\ call.template_id[1] \notin DOMAIN templates'
            /\ call.template_id[1] \notin AssignedIds(generation_history')
       /\ returned' # returned /\ returned'.request # None =>
            /\ Terminated
            /\ inflight' = inflight => returned'.api = None
       /\ DOMAIN templates' \ DOMAIN templates # {} => AttemptEnds]_vars

\* An attempt called the model once, got a text without a document, made
\* the fallback template and ended as a success while another attempt was
\* still waiting.
C27_Witness ==
    /\ AttemptReturned
    /\ returned.api # None
    /\ ~returned.api[1].raised
    /\ EndedInFallback
    /\ inflight # {}

\* The texts from which extraction returns the empty string: a fence around
\* white space only, and a closing tag before the first start marker.
EmptyExtractions == {EmptyFence, ClosedEarly}

\* C28: every stored template has a body that is not empty: when the model
\* call returns a text from which extraction returns the empty string, the
\* attempt goes on as if nothing had been found and stores the fallback
\* document.
C28_StoredBodyNeverEmpty ==
    /\ \A id \in DOMAIN templates :
         /\ templates[id].html_content # <<>>
         /\ CharLen(templates[id].html_content) > 0
    /\ \A txt \in EmptyExtractions :
         extract_html_from_response(txt) = Some(<<>>)
    /\ ( /\ AttemptReturned
         /\ returned.api # None
         /\ ~returned.api[1].raised
         /\ returned.api[1].text \in EmptyExtractions ) => EndedInFallback

\* The model answered with a closing tag before the document, and the
\* attempt stored the fallback document.
C28_Witness ==
    /\ AttemptReturned
    /\ returned.api # None
    /\ ~returned.api[1].raised
    /\ returned.api[1].text = ClosedEarly
    /\ returned.template_id[1] \in DOMAIN templates
    /\ templates[returned.template_id[1]].html_content
         = FallbackHtml(RequestDict(returned.request[1]))

\* The values of an enumeration.
ValuesOf(enum) == {enum[m] : m \in DOMAIN enum}

\* Every field string of the template is the value of a member of its
\* enumeration.
Parses(tpl) ==
    /\ tpl.scenario_type \in ValuesOf(ScenarioType)
    /\ tpl.target_industry \in ValuesOf(TargetIndustry)
    /\ tpl.urgency_level \in ValuesOf(UrgencyLevel)
    /\ tpl.tone_style \in ValuesOf(ToneStyle)
    /\ tpl.language \in ValuesOf(Language)
    /\ tpl.phishing_tactic # None =>
         tpl.phishing_tactic[1] \in ValuesOf(PhishingTactic)

\* C29: a regenerate called with an identifier that is not stored, or with
\* that of a template with a field string that is the value of no member of
\* its enumeration, returns a failure result with a message, draws no identifier, starts no
\* model call, appends nothing to the history and leaves the store as it
\* was (under SpecRegen).
C29_EarlyRegenerateFailure ==
    [][( /\ returned' # returned
         /\ returned'.op = "regenerate"
         /\ inflight \subseteq inflight'
         /\ \/ returned'.arg \notin DOMAIN templates
            \/ ~Parses(templates[returned'.arg]) ) =>
          /\ returned'.result.status = 200
          /\ ~returned'.result.success
          /\ returned'.result.template = None
          /\ NonEmptyText(returned'.result.error)
          /\ generation_history' = generation_history
          /\ templates' = templates
          /\ issued' = issued
          /\ inflight' = inflight]_vars

\* A regenerate of a stored template with a field that does not parse has
\* failed, and the template is stored and the history empty as before.
C29_Witness ==
    /\ returned.op = "regenerate"
    /\ returned.arg \in DOMAIN templates
    /\ ~Parses(templates[returned.arg])
    /\ ~returned.result.success
    /\ generation_history = <<>>
    /\ issued = {1}

\* On this step the model call of a regenerate returns, and the original
\* template was deleted while the call was in flight.
OriginalDeletedInFlight ==
    /\ returned' # returned
    /\ returned'.op = "regenerate"
    /\ inflight' # inflight
    /\ inflight' \subseteq inflight
    /\ returned'.arg \notin DOMAIN templates

====
